---- MODULE Spec2Model ----
(***************************************************************************)
(* Product Notifications: the products service (Service.CreateProduct,     *)
(* Service.DeleteProduct over a PostgresRepository and a RabbitPublisher),  *)
(* the broker queue "products.events", and the notifications consumer      *)
(* (Consumer.Listen / Consumer.handleMessage).                             *)
(*                                                                         *)
(* Strings that the code inspects character by character (product names)   *)
(* are sequences of one-character strings.  JSON bodies are objects whose  *)
(* values are texts tagged with their JSON kind; numbers and times are     *)
(* formatted to text by the publisher and parsed back by the consumer.     *)
(***************************************************************************)
EXTENDS Integers, Sequences, FiniteSets, TLC

\* ------------------------------------------------------------------ bounds
MaxCalls == 2        \* service calls (they may overlap: concurrent requests)
MaxMsgs == 2         \* messages sent to the queue while the consumer is observed
MaxDeliveries == 3   \* deliveries the broker makes to the consumer's channel
MaxRestarts == 1     \* times the notifications process is started again
MaxBrokerRestarts == 1 \* times the broker is restarted
MaxRows == 3         \* products in the table when ListProducts is called

\* --------------------------------------------------------- domain (part_001)
EventsQueue == "products.events"
EventCreated == "product_created"
EventDeleted == "product_deleted"

ErrNotFound == <<"product not found">>
ErrInvalidName == <<"product name is required">>
\* an error from the database driver or the transport (opaque leaf errors)
ErrDB == <<"db down">>
ErrTransport == <<"channel/connection is not open">>
Nil == <<>>

\* (mutant) fmt.Errorf("context: %v", err): the cause is not kept in the chain
WrapFlattened(context, err) == <<context>>

\* fmt.Errorf("context: %w", err): an error is the chain of its messages
Wrap(context, err) == <<context>> \o err

\* errors.Is(err, target): target is err or something err wraps
RECURSIVE ErrorsIs(_, _)
ErrorsIs(err, target) ==
    IF err = Nil THEN FALSE
    ELSE IF err = target THEN TRUE
    ELSE ErrorsIs(Tail(err), target)

ZeroProduct == [id |-> 0, name |-> <<>>, created_at |-> 0]
ZeroEvent == [event_type |-> "", product_id |-> 0, name |-> <<>>, timestamp |-> 0]

\* ------------------------------------------------------------ input alphabet
Chars == {" ", "a"}

IsSpace(ch) == ch = " "

\* the names a client sends: blank, padded with white space, with a space inside
InputNames == {<<" ">>, <<" ", "a", " ">>, <<"a", " ", "a">>}

\* strings.TrimSpace: drop leading and trailing white space, keep the inside
RECURSIVE TrimLeft(_)
TrimLeft(s) ==
    IF s # <<>> /\ IsSpace(Head(s)) THEN TrimLeft(Tail(s)) ELSE s

RECURSIVE TrimRight(_)
TrimRight(s) ==
    IF s # <<>> /\ IsSpace(s[Len(s)]) THEN TrimRight(SubSeq(s, 1, Len(s) - 1)) ELSE s

\* (mutant) only the leading white space is removed
TrimSpaceLeftOnly(s) == TrimLeft(s)

TrimSpace(s) == TrimRight(TrimLeft(s))

\* ------------------------------------------------- wire format (encoding/json)
Digits == <<"0", "1", "2", "3", "4", "5", "6", "7", "8", "9">>

\* strconv formatting of a small non-negative int64
FormatInt(i) == Digits[i + 1]

IsIntText(t) == \E i \in 1..Len(Digits) : Digits[i] = t

ParseInt(t) == (CHOOSE i \in 1..Len(Digits) : Digits[i] = t) - 1

\* time.Time.MarshalJSON: RFC 3339 text of a clock reading (reading 0 is the zero time)
TimeTexts == <<"0001-01-01T00:00:00Z", "2026-01-01T00:00:01Z", "2026-01-01T00:00:02Z",
               "2026-01-01T00:00:03Z", "2026-01-01T00:00:04Z", "2026-01-01T00:00:05Z",
               "2026-01-01T00:00:06Z", "2026-01-01T00:00:07Z">>

FormatTime(t) == TimeTexts[t + 1]

IsTimeText(t) == \E i \in 1..Len(TimeTexts) : TimeTexts[i] = t

ParseTime(t) == (CHOOSE i \in 1..Len(TimeTexts) : TimeTexts[i] = t) - 1

JString(text) == [kind |-> "string", text |-> text]
JNumber(text) == [kind |-> "number", text |-> text]

\* (mutant) the name tag lacks omitempty
OmitEmptyNameNever(name) == FALSE

\* the struct tags of ProductEvent: name carries omitempty
OmitEmptyName(name) == name = <<>>

\* json.Marshal(ProductEvent): an object keyed by the json tags
Marshal(event) ==
    LET keys == {"event_type", "product_id", "timestamp"}
                \cup (IF OmitEmptyName(event.name) THEN {} ELSE {"name"})
    IN  [wf |-> TRUE,
         obj |-> [k \in keys |->
                    CASE k = "event_type" -> JString(event.event_type)
                      [] k = "product_id" -> JNumber(FormatInt(event.product_id))
                      [] k = "name" -> JString(event.name)
                      [] k = "timestamp" -> JString(FormatTime(event.timestamp))]]

\* does the JSON value under key k decode into the struct field with that tag
FieldDecodes(k, v) ==
    CASE k = "event_type" -> v.kind = "string"
      [] k = "product_id" -> v.kind = "number" /\ IsIntText(v.text)
      [] k = "name" -> v.kind = "string"
      [] k = "timestamp" -> v.kind = "string" /\ IsTimeText(v.text)
      [] OTHER -> TRUE

\* (mutant) the consumer's struct tags differ from the publisher's: the id is
\* read from the key "id"
UnmarshalOtherTag(body) ==
    IF ~body.wf THEN [err |-> <<"unexpected end of JSON input">>, event |-> ZeroEvent]
    ELSE LET o == body.obj
             has(k) == k \in DOMAIN o
         IN  IF \E k \in DOMAIN o : ~FieldDecodes(k, o[k])
             THEN [err |-> <<"json: cannot unmarshal">>, event |-> ZeroEvent]
             ELSE [err |-> Nil,
                   event |-> [event_type |-> IF has("event_type") THEN o["event_type"].text ELSE "",
                              product_id |-> IF has("id") THEN ParseInt(o["id"].text) ELSE 0,
                              name |-> IF has("name") THEN o["name"].text ELSE <<>>,
                              timestamp |-> IF has("timestamp") THEN ParseTime(o["timestamp"].text) ELSE 0]]

\* json.Unmarshal(body, &event): a syntax error for a malformed body, a type
\* error for a value that does not fit its field; absent fields keep their
\* zero value and unknown keys are ignored
Unmarshal(body) ==
    IF ~body.wf THEN [err |-> <<"unexpected end of JSON input">>, event |-> ZeroEvent]
    ELSE LET o == body.obj
             has(k) == k \in DOMAIN o
         IN  IF \E k \in DOMAIN o : ~FieldDecodes(k, o[k])
             THEN [err |-> <<"json: cannot unmarshal">>, event |-> ZeroEvent]
             ELSE [err |-> Nil,
                   event |-> [event_type |-> IF has("event_type") THEN o["event_type"].text ELSE "",
                              product_id |-> IF has("product_id") THEN ParseInt(o["product_id"].text) ELSE 0,
                              name |-> IF has("name") THEN o["name"].text ELSE <<>>,
                              timestamp |-> IF has("timestamp") THEN ParseTime(o["timestamp"].text) ELSE 0]]

\* a body cut short in transit or written by a foreign producer
TruncatedBody == [wf |-> FALSE, obj |-> <<>>]

ForeignBodies == {TruncatedBody}

\* bodies that are valid JSON but not the wire shape of ProductEvent: other
\* field names, fields missing, an event type nobody produces, a wrong type
RenamedFieldsBody ==
    [wf |-> TRUE,
     obj |-> [k \in {"type", "id"} |->
                CASE k = "type" -> JString(EventCreated)
                  [] k = "id" -> JNumber("7")]]

MissingFieldsBody ==
    [wf |-> TRUE, obj |-> [k \in {"event_type"} |-> JString(EventCreated)]]

UnknownTypeBody ==
    [wf |-> TRUE,
     obj |-> [k \in {"event_type", "product_id", "timestamp"} |->
                CASE k = "event_type" -> JString("product_updated")
                  [] k = "product_id" -> JNumber("7")
                  [] k = "timestamp" -> JString(FormatTime(1))]]

WrongTypeBody ==
    [wf |-> TRUE,
     obj |-> [k \in {"event_type", "product_id", "timestamp"} |->
                CASE k = "event_type" -> JString(EventDeleted)
                  [] k = "product_id" -> JString("7")
                  [] k = "timestamp" -> JString(FormatTime(1))]]

MismatchedBodies == {RenamedFieldsBody, MissingFieldsBody, UnknownTypeBody, WrongTypeBody}

\* -------------------------------------------------------------------- state
VARIABLES
    rows,        \* the products table: a set of Product records
    nextID,      \* the table's id sequence (BIGSERIAL)
    clock,       \* last wall-clock reading of the products process
    calls,       \* the service calls, by call number: inputs, position, results
    events,      \* every Publisher.Publish invocation, in invocation order
    created,     \* counter products_created_total
    deleted,     \* counter products_deleted_total
    bodies,      \* every body the broker accepted; a message is its index here
    ready,       \* the queue products.events: messages ready for delivery
    unacked,     \* deliveries made on the consumer's channel and not yet resolved
    acked,       \* messages the broker removed on an acknowledgment
    nextTag,     \* next delivery tag of the consumer's channel
    chanOpen,    \* the consumer's AMQP channel is open
    consuming,   \* Consume registered the consumer on the channel
    msgs,        \* the Go channel returned by Consume: deliveries not yet received
    lpc,         \* where Listen is: start, select, handling, handled, returned
    cur,         \* the delivery Listen took from msgs
    herr,        \* what handleMessage returned for cur
    ctxDone,     \* the cancellation signal has fired
    listenRet,   \* what Listen returned
    restarts,    \* how often the notifications process was started again
    trace,       \* what the consumer did, in order: log entries and Ack/Nack calls
    brokerRestarts, \* how often the broker was restarted
    responses,   \* the HTTP response written for each call, by call number
    listing,     \* the ListProducts call: arguments, store queries, results
    env,         \* the process environment: variable name -> value ("" = unset or empty)
    loaded,      \* what LoadProducts / LoadNotifications returned
    proc         \* the notifications process: where run() is and what it saw

producerVars == <<rows, nextID, clock, calls, events, created, deleted>>
brokerVars == <<bodies, ready, unacked, acked, nextTag, chanOpen, consuming, msgs>>
consumerVars == <<lpc, cur, herr, ctxDone, listenRet, restarts, trace>>
otherVars == <<brokerRestarts, responses, listing, env, loaded, proc>>
vars == <<rows, nextID, clock, calls, events, created, deleted, bodies, ready,
          unacked, acked, nextTag, chanOpen, consuming, msgs, lpc, cur, herr, ctxDone,
          listenRet, restarts, trace, brokerRestarts, responses, listing, env, loaded,
          proc>>

CallIds == 1..MaxCalls
\* the ids a client asks to delete: none (0), any id given out so far, the next one
DeleteIds == 0..nextID

IdleCall == [op |-> "none", pc |-> "idle", name |-> <<>>, id |-> 0,
             repoErr |-> Nil, product |-> ZeroProduct, event |-> ZeroEvent, pubErr |-> Nil,
             logged |-> FALSE, ret |-> [product |-> ZeroProduct, err |-> Nil]]

\* --------------------------------------------- repository (postgres.go)
\* (mutant) the id is the sequence's current value: the sequence is not advanced
RepoCreateCurrval(table, seq, name, now, dbOK) ==
    IF ~dbOK
    THEN [rows |-> table, nextID |-> seq, product |-> ZeroProduct,
          err |-> Wrap("insert product", ErrDB)]
    ELSE LET p == [id |-> seq, name |-> name, created_at |-> now]
         IN  [rows |-> table \cup {p}, nextID |-> seq, product |-> p, err |-> Nil]

\* INSERT INTO products (name) VALUES ($1) RETURNING id, name, created_at
RepoCreate(table, seq, name, now, dbOK) ==
    IF ~dbOK
    THEN [rows |-> table, nextID |-> seq, product |-> ZeroProduct,
          err |-> Wrap("insert product", ErrDB)]
    ELSE LET p == [id |-> seq, name |-> name, created_at |-> now]
         IN  [rows |-> table \cup {p}, nextID |-> seq + 1, product |-> p, err |-> Nil]

\* (mutant) Delete does not look at RowsAffected
RepoDeleteIdempotent(table, id, dbOK) ==
    IF ~dbOK
    THEN [rows |-> table, err |-> Wrap("delete product", ErrDB)]
    ELSE [rows |-> {p \in table : p.id # id}, err |-> Nil]

\* DELETE FROM products WHERE id = $1, then RowsAffected
RepoDelete(table, id, dbOK) ==
    IF ~dbOK
    THEN [rows |-> table, err |-> Wrap("delete product", ErrDB)]
    ELSE LET hit == {p \in table : p.id = id}
         IN  IF Cardinality(hit) = 0
             THEN [rows |-> table, err |-> ErrNotFound]
             ELSE [rows |-> table \ hit, err |-> Nil]

\* ------------------------------------------------ service (service.go)
\* (mutant) the created event is built from the request, which carries no id
CreatedEventOfRequest(product, now) ==
    [event_type |-> EventCreated, product_id |-> 0,
     name |-> product.name, timestamp |-> now]

\* the event CreateProduct hands to the publisher
CreatedEvent(product, now) ==
    [event_type |-> EventCreated, product_id |-> product.id,
     name |-> product.name, timestamp |-> now]

\* the event DeleteProduct hands to the publisher
DeletedEvent(id, now) ==
    [event_type |-> EventDeleted, product_id |-> id, name |-> <<>>, timestamp |-> now]

\* (mutant) CreateProduct hands a publish error back to its caller
CreateReturnPropagating(product, pubErr) ==
    IF pubErr # Nil
    THEN [product |-> ZeroProduct, err |-> Wrap("publish event", pubErr)]
    ELSE [product |-> product, err |-> Nil]

\* what CreateProduct returns once Publish has returned pubErr
CreateReturn(product, pubErr) == [product |-> product, err |-> Nil]

\* what DeleteProduct returns once Publish has returned pubErr
DeleteReturn(pubErr) == [product |-> ZeroProduct, err |-> Nil]

\* call numbers are given out in order of arrival
StartsInOrder(c) == \A d \in CallIds : d < c => calls[d].pc # "idle"

\* CreateProduct up to and including s.repo.Create
CreateProduct(c, rawName) ==
    /\ calls[c].pc = "idle"
    /\ StartsInOrder(c)
    /\ LET name == TrimSpace(rawName)
           begun == [calls[c] EXCEPT !.op = "create", !.name = rawName]
       IN  IF name = <<>>
           THEN /\ calls' = [calls EXCEPT ![c] =
                        [begun EXCEPT !.pc = "done",
                                      !.ret = [product |-> ZeroProduct, err |-> ErrInvalidName]]]
                /\ UNCHANGED <<rows, nextID>>
           ELSE \E dbOK \in BOOLEAN :
                  LET r == RepoCreate(rows, nextID, name, clock, dbOK)
                  IN  /\ rows' = r.rows
                      /\ nextID' = r.nextID
                      /\ calls' = [calls EXCEPT ![c] =
                            IF r.err # Nil
                            THEN [begun EXCEPT !.pc = "done", !.repoErr = r.err,
                                               !.ret = [product |-> ZeroProduct,
                                                        err |-> Wrap("repo create", r.err)]]
                            ELSE [begun EXCEPT !.pc = "mutated", !.product = r.product]]
    /\ UNCHANGED <<clock, events, created, deleted, bodies, ready>>
    /\ UNCHANGED <<unacked, acked, nextTag, chanOpen, consuming, msgs, consumerVars, otherVars>>

\* DeleteProduct up to and including s.repo.Delete
DeleteProduct(c, id) ==
    /\ calls[c].pc = "idle"
    /\ StartsInOrder(c)
    /\ \E dbOK \in BOOLEAN :
         LET r == RepoDelete(rows, id, dbOK)
             begun == [calls[c] EXCEPT !.op = "delete", !.id = id]
         IN  /\ rows' = r.rows
             /\ calls' = [calls EXCEPT ![c] =
                   IF r.err # Nil
                   THEN [begun EXCEPT !.pc = "done", !.repoErr = r.err,
                                      !.ret = [product |-> ZeroProduct,
                                               err |-> Wrap("repo delete", r.err)]]
                   ELSE [begun EXCEPT !.pc = "mutated"]]
    /\ UNCHANGED <<nextID, clock, events, created, deleted, bodies, ready>>
    /\ UNCHANGED <<unacked, acked, nextTag, chanOpen, consuming, msgs, consumerVars, otherVars>>

\* the argument of s.publisher.Publish is built: time.Now().UTC() is read
BuildEvent(c) ==
    /\ calls[c].pc = "mutated"
    /\ \E now \in {clock, clock + 1} :
         /\ clock' = now
         /\ calls' = [calls EXCEPT ![c].pc = "built",
                                   ![c].event = IF calls[c].op = "create"
                                                THEN CreatedEvent(calls[c].product, now)
                                                ELSE DeletedEvent(calls[c].id, now)]
    /\ UNCHANGED <<rows, nextID, events, created, deleted, bodies, ready>>
    /\ UNCHANGED <<unacked, acked, nextTag, chanOpen, consuming, msgs, consumerVars, otherVars>>

\* (mutant) the publisher tries a second time when the first send failed
PublishRetrying(c) ==
    /\ calls[c].pc = "built"
    /\ \E sent \in BOOLEAN, resent \in BOOLEAN :
         LET payload == Marshal(calls[c].event)
             failure == Wrap("publish to products.events", ErrTransport)
             first == [call |-> c, event |-> calls[c].event,
                       err |-> IF sent THEN Nil ELSE failure]
             second == [call |-> c, event |-> calls[c].event,
                        err |-> IF resent THEN Nil ELSE failure]
             arrived == sent \/ resent
         IN  /\ events' = IF sent THEN Append(events, first) ELSE events \o <<first, second>>
             /\ bodies' = IF arrived THEN Append(bodies, payload) ELSE bodies
             /\ ready' = IF arrived THEN Append(ready, Len(bodies) + 1) ELSE ready
             /\ calls' = [calls EXCEPT ![c].pc = "published",
                                       ![c].pubErr = IF arrived THEN Nil ELSE failure]
    /\ UNCHANGED <<rows, nextID, clock, created, deleted>>
    /\ UNCHANGED <<unacked, acked, nextTag, chanOpen, consuming, msgs, consumerVars, otherVars>>

\* RabbitPublisher.Publish: marshal, then one PublishWithContext to the queue
Publish(c) ==
    /\ calls[c].pc = "built"
    /\ \E sent \in BOOLEAN :
         LET payload == Marshal(calls[c].event)
             err == IF sent THEN Nil ELSE Wrap("publish to products.events", ErrTransport)
         IN  /\ events' = Append(events, [call |-> c, event |-> calls[c].event, err |-> err])
             /\ bodies' = IF sent THEN Append(bodies, payload) ELSE bodies
             /\ ready' = IF sent THEN Append(ready, Len(bodies) + 1) ELSE ready
             /\ calls' = [calls EXCEPT ![c].pc = "published", ![c].pubErr = err]
    /\ UNCHANGED <<rows, nextID, clock, created, deleted>>
    /\ UNCHANGED <<unacked, acked, nextTag, chanOpen, consuming, msgs, consumerVars, otherVars>>

\* (mutant) the counters are incremented only when the event was published
ServiceReturnCountingPublished(c) ==
    /\ calls[c].pc = "published"
    /\ calls' = [calls EXCEPT ![c].pc = "done",
                              ![c].logged = calls[c].pubErr # Nil,
                              ![c].ret = IF calls[c].op = "create"
                                         THEN CreateReturn(calls[c].product, calls[c].pubErr)
                                         ELSE DeleteReturn(calls[c].pubErr)]
    /\ created' = IF calls[c].op = "create" /\ calls[c].pubErr = Nil
                  THEN created + 1 ELSE created
    /\ deleted' = IF calls[c].op = "delete" /\ calls[c].pubErr = Nil
                  THEN deleted + 1 ELSE deleted
    /\ UNCHANGED <<rows, nextID, clock, events, bodies, ready>>
    /\ UNCHANGED <<unacked, acked, nextTag, chanOpen, consuming, msgs, consumerVars, otherVars>>

\* the rest of CreateProduct / DeleteProduct: log a publish error, count, return
ServiceReturn(c) ==
    /\ calls[c].pc = "published"
    /\ calls' = [calls EXCEPT ![c].pc = "done",
                              ![c].logged = calls[c].pubErr # Nil,
                              ![c].ret = IF calls[c].op = "create"
                                         THEN CreateReturn(calls[c].product, calls[c].pubErr)
                                         ELSE DeleteReturn(calls[c].pubErr)]
    /\ created' = IF calls[c].op = "create" THEN created + 1 ELSE created
    /\ deleted' = IF calls[c].op = "delete" THEN deleted + 1 ELSE deleted
    /\ UNCHANGED <<rows, nextID, clock, events, bodies, ready>>
    /\ UNCHANGED <<unacked, acked, nextTag, chanOpen, consuming, msgs, consumerVars, otherVars>>

\* ------------------------------------------------------ broker (AMQP 0-9-1)
NoDelivery == [tag |-> 0, msg |-> 0]
NotReturned == <<"Listen has not returned">>

\* the messages of a set, in queue order (the order the broker accepted them)
RECURSIVE InQueueOrder(_)
InQueueOrder(S) ==
    IF S = {} THEN <<>>
    ELSE LET m == CHOOSE x \in S : \A y \in S : x <= y
         IN  <<m>> \o InQueueOrder(S \ {m})

Range(q) == {q[i] : i \in DOMAIN q}

\* a requeued message goes back to its original position in the queue
Requeue(q, S) == InQueueOrder(Range(q) \cup S)

\* (mutant) the call carries multiple = true and delivery tag 0: it resolves
\* everything outstanding on the channel
ResolveEverything(kind, requeue, delivery) ==
    IF ~chanOpen \/ delivery \notin unacked
    THEN [ok |-> FALSE, unacked |-> unacked, ready |-> ready, acked |-> acked]
    ELSE [ok |-> TRUE,
          unacked |-> {},
          ready |-> IF kind = "nack" /\ requeue
                    THEN Requeue(ready, {d.msg : d \in unacked}) ELSE ready,
          acked |-> IF kind = "ack" THEN acked \cup {d.msg : d \in unacked} ELSE acked]

\* basic.ack / basic.nack of one delivery (multiple = false) on the consumer's
\* channel: refused when the channel is closed, otherwise the delivery is
\* resolved; a nack requeues the message or, without requeue, discards it
Resolve(kind, requeue, delivery) ==
    IF ~chanOpen \/ delivery \notin unacked
    THEN [ok |-> FALSE, unacked |-> unacked, ready |-> ready, acked |-> acked]
    ELSE [ok |-> TRUE,
          unacked |-> unacked \ {delivery},
          ready |-> IF kind = "nack" /\ requeue THEN Requeue(ready, {delivery.msg}) ELSE ready,
          acked |-> IF kind = "ack" THEN acked \cup {delivery.msg} ELSE acked]

\* the bodies the products service puts on the queue
ServiceBodies ==
    {Marshal(CreatedEvent([id |-> 7, name |-> <<"a">>, created_at |-> 1], 1)),
     Marshal(DeletedEvent(7, 2))}

\* some producer's publish reaches the queue
ProducerSend(body) ==
    /\ Len(bodies) < MaxMsgs
    /\ bodies' = Append(bodies, body)
    /\ ready' = Append(ready, Len(bodies) + 1)
    /\ UNCHANGED <<producerVars, otherVars, unacked, acked, nextTag, chanOpen, consuming, msgs,
                   consumerVars>>

\* (mutant) Consume was called with autoAck = true: the broker takes a message
\* as acknowledged the moment it is delivered
DeliverAutoAck ==
    /\ consuming
    /\ chanOpen
    /\ ready # <<>>
    /\ nextTag <= MaxDeliveries
    /\ msgs' = Append(msgs, [tag |-> nextTag, msg |-> Head(ready)])
    /\ acked' = acked \cup {Head(ready)}
    /\ ready' = Tail(ready)
    /\ nextTag' = nextTag + 1
    /\ UNCHANGED <<producerVars, otherVars, bodies, unacked, chanOpen, consuming, consumerVars>>

\* the broker pushes the head of the queue to the consumer (no prefetch limit
\* is set, manual ack): the message is in flight until it is resolved
Deliver ==
    /\ consuming
    /\ chanOpen
    /\ ready # <<>>
    /\ nextTag <= MaxDeliveries
    /\ LET d == [tag |-> nextTag, msg |-> Head(ready)]
       IN  /\ msgs' = Append(msgs, d)
           /\ unacked' = unacked \cup {d}
    /\ ready' = Tail(ready)
    /\ nextTag' = nextTag + 1
    /\ UNCHANGED <<producerVars, otherVars, bodies, acked, chanOpen, consuming, consumerVars>>

\* the broker or the connection closes the consumer's channel: everything in
\* flight on it goes back to the queue
ChannelClose ==
    /\ chanOpen
    /\ chanOpen' = FALSE
    /\ ready' = Requeue(ready, {d.msg : d \in unacked})
    /\ unacked' = {}
    /\ UNCHANGED <<producerVars, otherVars, bodies, acked, nextTag, consuming, msgs, consumerVars>>

\* SIGINT / SIGTERM cancels the context Listen runs under
Signal ==
    /\ ~ctxDone
    /\ ctxDone' = TRUE
    /\ UNCHANGED <<producerVars, otherVars, brokerVars, lpc, cur, herr, listenRet, restarts, trace>>

\* the notifications process ends after Listen returned (its channel and
\* connection close, so what was in flight is requeued) and is started again:
\* NewConsumer opens a new channel and declares the queue
Restart ==
    /\ lpc = "returned"
    /\ restarts < MaxRestarts
    /\ restarts' = restarts + 1
    /\ ready' = Requeue(ready, {d.msg : d \in unacked})
    /\ unacked' = {}
    /\ msgs' = <<>>
    /\ chanOpen' = TRUE
    /\ consuming' = FALSE
    /\ lpc' = "start"
    /\ ctxDone' = FALSE
    /\ listenRet' = NotReturned
    /\ UNCHANGED <<producerVars, otherVars, bodies, acked, nextTag, cur, herr, trace>>

\* ------------------------------------------------- consumer (consumer.go)
\* a record of the trace: kind is info / error (log entries), ack / nack
\* (calls, ok = the call returned nil) or returned (Listen returned, ok = it
\* returned nil); run is the process run it belongs to
Entry(kind, delivery, event, requeue, ok) ==
    [kind |-> kind, run |-> restarts, tag |-> delivery.tag, msg |-> delivery.msg,
     event |-> event, requeue |-> requeue, ok |-> ok]

\* the trace record of Listen returning ret
ReturnEntry(ret) == Entry("returned", NoDelivery, ZeroEvent, FALSE, ret = Nil)

\* (mutant) handleMessage decodes the event and logs nothing
handleMessageSilent(delivery) ==
    LET r == Unmarshal(bodies[delivery.msg])
    IN  [err |-> IF r.err # Nil THEN Wrap("unmarshal event", r.err) ELSE Nil, log |-> <<>>]

\* (mutant) handleMessage returns nil for a body it could not unmarshal
handleMessageForgiving(delivery) ==
    LET r == Unmarshal(bodies[delivery.msg])
    IN  IF r.err # Nil
        THEN [err |-> Nil, log |-> <<>>]
        ELSE [err |-> Nil, log |-> <<Entry("info", delivery, r.event, FALSE, TRUE)>>]

\* Consumer.handleMessage: unmarshal the body; log the event if that worked
handleMessage(delivery) ==
    LET r == Unmarshal(bodies[delivery.msg])
    IN  IF r.err # Nil
        THEN [err |-> Wrap("unmarshal event", r.err), log |-> <<>>]
        ELSE [err |-> Nil, log |-> <<Entry("info", delivery, r.event, FALSE, TRUE)>>]

\* (mutant) Listen negatively acknowledges whatever handleMessage returned
ResolutionAlwaysNack(err) == [kind |-> "nack", requeue |-> TRUE]

\* (mutant) Listen rejects a failed message without the requeue flag
ResolutionDiscarding(err) ==
    IF err # Nil THEN [kind |-> "nack", requeue |-> FALSE]
    ELSE [kind |-> "ack", requeue |-> FALSE]

\* how Listen resolves a delivery once handleMessage returned err
Resolution(err) ==
    IF err # Nil THEN [kind |-> "nack", requeue |-> TRUE]
    ELSE [kind |-> "ack", requeue |-> FALSE]

\* (mutant) Listen drops the error of channel.Consume
ConsumeErrorSwallowed(err) == Nil

\* what Listen returns when channel.Consume fails
ConsumeError(err) == Wrap("consume queue products.events", err)

\* Listen: c.channel.Consume(queue, tag, autoAck = false, ...)
ListenConsume ==
    /\ lpc = "start"
    /\ \E ok \in BOOLEAN :
         /\ ok => chanOpen
         /\ consuming' = ok
         /\ lpc' = IF ok THEN "select" ELSE "returned"
         /\ listenRet' = IF ok THEN listenRet ELSE ConsumeError(ErrTransport)
         /\ trace' = IF ok THEN trace
                      ELSE Append(trace, ReturnEntry(ConsumeError(ErrTransport)))
    /\ UNCHANGED <<producerVars, otherVars, bodies, ready, unacked, acked, nextTag, chanOpen, msgs,
                   cur, herr, ctxDone, restarts>>

\* (mutant) Listen ranges over the delivery channel and looks at the context
\* only once that channel is closed
ListenCancelledOnClose ==
    /\ lpc = "select"
    /\ ctxDone
    /\ ~chanOpen
    /\ lpc' = "returned"
    /\ listenRet' = Nil
    /\ trace' = Append(trace, ReturnEntry(Nil))
    /\ UNCHANGED <<producerVars, otherVars, brokerVars, cur, herr, ctxDone, restarts>>

\* (mutant) the context is also checked while a message is being processed
ListenCancelledAnywhere ==
    /\ lpc \in {"select", "handling", "handled"}
    /\ ctxDone
    /\ lpc' = "returned"
    /\ listenRet' = Nil
    /\ trace' = Append(trace, ReturnEntry(Nil))
    /\ UNCHANGED <<producerVars, otherVars, brokerVars, cur, herr, ctxDone, restarts>>

\* (mutant) on cancellation Listen empties the delivery channel, acknowledging
\* what it finds there without processing it
ListenCancelledDraining ==
    /\ lpc = "select"
    /\ ctxDone
    /\ LET drained == IF chanOpen THEN Range(msgs) \cap unacked ELSE {}
       IN  /\ unacked' = unacked \ drained
           /\ acked' = acked \cup {d.msg : d \in drained}
    /\ msgs' = <<>>
    /\ lpc' = "returned"
    /\ listenRet' = Nil
    /\ trace' = Append(trace, ReturnEntry(Nil))
    /\ UNCHANGED <<producerVars, otherVars, bodies, ready, nextTag, chanOpen, consuming,
                   cur, herr, ctxDone, restarts>>

\* Listen: select chose case <-ctx.Done()
ListenCancelled ==
    /\ lpc = "select"
    /\ ctxDone
    /\ lpc' = "returned"
    /\ listenRet' = Nil
    /\ trace' = Append(trace, ReturnEntry(Nil))
    /\ UNCHANGED <<producerVars, otherVars, brokerVars, cur, herr, ctxDone, restarts>>

\* (mutant) Listen takes the newest delivery waiting in the delivery channel
ListenReceiveNewest ==
    /\ lpc = "select"
    /\ msgs # <<>>
    /\ cur' = msgs[Len(msgs)]
    /\ msgs' = SubSeq(msgs, 1, Len(msgs) - 1)
    /\ lpc' = "handling"
    /\ UNCHANGED <<producerVars, otherVars, bodies, ready, unacked, acked, nextTag, chanOpen,
                   consuming, herr, ctxDone, listenRet, restarts, trace>>

\* (mutant) Listen takes the next delivery without waiting for the one it
\* holds to be resolved
ListenReceiveOverlapping ==
    /\ lpc \in {"select", "handling", "handled"}
    /\ msgs # <<>>
    /\ cur' = Head(msgs)
    /\ msgs' = Tail(msgs)
    /\ lpc' = "handling"
    /\ UNCHANGED <<producerVars, otherVars, bodies, ready, unacked, acked, nextTag, chanOpen,
                   consuming, herr, ctxDone, listenRet, restarts, trace>>

\* Listen: select chose case msg, ok := <-msgs with ok true
ListenReceive ==
    /\ lpc = "select"
    /\ msgs # <<>>
    /\ cur' = Head(msgs)
    /\ msgs' = Tail(msgs)
    /\ lpc' = "handling"
    /\ UNCHANGED <<producerVars, otherVars, bodies, ready, unacked, acked, nextTag, chanOpen,
                   consuming, herr, ctxDone, listenRet, restarts, trace>>

\* Listen: select chose case msg, ok := <-msgs with ok false (msgs was closed
\* with the AMQP channel; what was still buffered is dropped)
ListenMsgsClosed ==
    /\ lpc = "select"
    /\ ~chanOpen
    /\ msgs' = <<>>
    /\ lpc' = "returned"
    /\ listenRet' = Nil
    /\ trace' = Append(trace, ReturnEntry(Nil))
    /\ UNCHANGED <<producerVars, otherVars, bodies, ready, unacked, acked, nextTag, chanOpen,
                   consuming, cur, herr, ctxDone, restarts>>

\* Listen: c.handleMessage(&msg), and the error log when it failed
ListenHandle ==
    /\ lpc = "handling"
    /\ LET r == handleMessage(cur)
       IN  /\ herr' = r.err
           /\ trace' = trace \o r.log \o
                       (IF r.err # Nil
                        THEN <<Entry("error", cur, ZeroEvent, FALSE, TRUE)>> ELSE <<>>)
    /\ lpc' = "handled"
    /\ UNCHANGED <<producerVars, otherVars, brokerVars, cur, ctxDone, listenRet, restarts>>

\* (mutant) Listen returns the error of handleMessage instead of going on with
\* the next delivery
ListenResolveReturning ==
    /\ lpc = "handled"
    /\ LET how == Resolution(herr)
           r == Resolve(how.kind, how.requeue, cur)
       IN  /\ unacked' = r.unacked
           /\ ready' = r.ready
           /\ acked' = r.acked
           /\ trace' = Append(trace, Entry(how.kind, cur, ZeroEvent, how.requeue, r.ok))
                       \o (IF herr # Nil THEN <<ReturnEntry(herr)>> ELSE <<>>)
    /\ lpc' = IF herr # Nil THEN "returned" ELSE "select"
    /\ listenRet' = IF herr # Nil THEN herr ELSE listenRet
    /\ cur' = NoDelivery
    /\ herr' = Nil
    /\ UNCHANGED <<producerVars, otherVars, bodies, nextTag, chanOpen, consuming, msgs, ctxDone,
                   restarts>>

\* Listen: _ = msg.Nack(false, true); continue   or   _ = msg.Ack(false)
ListenResolve ==
    /\ lpc = "handled"
    /\ LET how == Resolution(herr)
           r == Resolve(how.kind, how.requeue, cur)
       IN  /\ unacked' = r.unacked
           /\ ready' = r.ready
           /\ acked' = r.acked
           /\ trace' = Append(trace, Entry(how.kind, cur, ZeroEvent, how.requeue, r.ok))
    /\ lpc' = "select"
    /\ cur' = NoDelivery
    /\ herr' = Nil
    /\ UNCHANGED <<producerVars, otherVars, bodies, nextTag, chanOpen, consuming, msgs, ctxDone,
                   listenRet, restarts>>

\* ------------------------------------------------- broker restart (part_002)
\* QueueDeclare(queue, durable = true, ...): the queue outlives a broker restart
QueueDurable == TRUE

\* the delivery mode that makes the broker store a message: amqp.Persistent
Persistent == 2

\* amqp.Publishing{ContentType, Body}: DeliveryMode is left at its zero value
PublishingDeliveryMode == 0

\* a message outlives a broker restart when its queue is durable and it was
\* published as persistent
SurvivesRestart(m) == QueueDurable /\ PublishingDeliveryMode = Persistent

\* the broker restarts: every connection drops, what was in flight is
\* requeued, and of the queue's messages only the persistent ones are recovered
BrokerRestart ==
    /\ brokerRestarts < MaxBrokerRestarts
    /\ brokerRestarts' = brokerRestarts + 1
    /\ ready' = InQueueOrder({m \in Range(ready) \cup {d.msg : d \in unacked} :
                                SurvivesRestart(m)})
    /\ unacked' = {}
    /\ chanOpen' = FALSE
    /\ UNCHANGED <<producerVars, bodies, acked, nextTag, consuming, msgs, consumerVars>>
    /\ UNCHANGED <<responses, listing, env, loaded, proc>>

\* --------------------------------------------------- HTTP handlers (part_003)
StatusCreated == 201
StatusNoContent == 204
StatusBadRequest == 400
StatusNotFound == 404
StatusInternalServerError == 500

NoResponse == [handler |-> "", status |-> 0, error |-> <<>>, product |-> ZeroProduct]

\* c.JSON(status, errorResponse{Error: message})
ErrorResponse(handler, status, message) ==
    [handler |-> handler, status |-> status, error |-> message, product |-> ZeroProduct]

\* the request bodies clients post: not JSON, {}, {"name": ""}, and objects
\* with a name (the extra key is not part of the request type)
RequestBodies ==
    {[wf |-> FALSE, obj |-> <<>>],
     [wf |-> TRUE, obj |-> <<>>],
     [wf |-> TRUE, obj |-> [k \in {"name"} |-> JString(<<>>)]],
     [wf |-> TRUE, obj |-> [k \in {"name"} |-> JString(<<" ">>)]],
     [wf |-> TRUE, obj |-> [k \in {"name", "id"} |-> JString(<<" ", "a", " ">>)]]}

\* c.ShouldBindJSON(&req) for createProductRequest{Name `binding:"required"`}:
\* the body must be JSON, name a string, and name must not be the zero value
ShouldBindJSON(body) ==
    IF ~body.wf THEN [err |-> <<"invalid character">>, name |-> <<>>]
    ELSE IF "name" \in DOMAIN body.obj /\ body.obj["name"].kind # "string"
    THEN [err |-> <<"json: cannot unmarshal">>, name |-> <<>>]
    ELSE LET name == IF "name" \in DOMAIN body.obj THEN body.obj["name"].text ELSE <<>>
         IN  IF name = <<>>
             THEN [err |-> <<"Field validation for 'Name' failed on the 'required' tag">>,
                   name |-> name]
             ELSE [err |-> Nil, name |-> name]

\* the id path parameters clients send: not a number, or a product id
RawIds == {"abc"} \cup {FormatInt(i) : i \in DeleteIds}

\* strconv.ParseInt(c.Param("id"), 10, 64)
ParseId(raw) ==
    IF IsIntText(raw) THEN [err |-> Nil, id |-> ParseInt(raw)]
    ELSE [err |-> <<"strconv.ParseInt: invalid syntax">>, id |-> 0]

\* Handler.CreateProduct once the service returned (product, err)
CreateResponse(product, err) ==
    IF err = Nil
    THEN [handler |-> "create", status |-> StatusCreated, error |-> <<>>, product |-> product]
    ELSE IF ErrorsIs(err, ErrInvalidName)
    THEN ErrorResponse("create", StatusBadRequest, err)
    ELSE ErrorResponse("create", StatusInternalServerError, <<"failed to create product">>)

\* (mutant) the handler compares the error with ErrNotFound instead of errors.Is
DeleteResponseUnwrapped(err) ==
    IF err = Nil
    THEN [handler |-> "delete", status |-> StatusNoContent, error |-> <<>>,
          product |-> ZeroProduct]
    ELSE IF err = ErrNotFound
    THEN ErrorResponse("delete", StatusNotFound, err)
    ELSE ErrorResponse("delete", StatusInternalServerError, <<"failed to delete product">>)

\* Handler.DeleteProduct once the service returned err
DeleteResponse(err) ==
    IF err = Nil
    THEN [handler |-> "delete", status |-> StatusNoContent, error |-> <<>>,
          product |-> ZeroProduct]
    ELSE IF ErrorsIs(err, ErrNotFound)
    THEN ErrorResponse("delete", StatusNotFound, err)
    ELSE ErrorResponse("delete", StatusInternalServerError, <<"failed to delete product">>)

\* a request the handler answers without calling the service
Rejected(c, response) ==
    /\ calls[c].pc = "idle"
    /\ StartsInOrder(c)
    /\ calls' = [calls EXCEPT ![c].pc = "done"]
    /\ responses' = [responses EXCEPT ![c] = response]
    /\ UNCHANGED <<rows, nextID, clock, events, created, deleted, brokerVars, consumerVars>>
    /\ UNCHANGED <<brokerRestarts, listing, env, loaded, proc>>

\* Handler.CreateProduct up to and including s.repo.Create
HandlerCreateProduct(c, body) ==
    \/ /\ ShouldBindJSON(body).err # Nil
       /\ Rejected(c, ErrorResponse("create", StatusBadRequest, <<"invalid request body">>))
    \/ /\ ShouldBindJSON(body).err = Nil
       /\ CreateProduct(c, ShouldBindJSON(body).name)

\* Handler.DeleteProduct up to and including s.repo.Delete
HandlerDeleteProduct(c, raw) ==
    \/ /\ ParseId(raw).err # Nil
       /\ Rejected(c, ErrorResponse("delete", StatusBadRequest, <<"invalid product id">>))
    \/ /\ ParseId(raw).err = Nil
       /\ DeleteProduct(c, ParseId(raw).id)

\* the handler writes the response once the service has returned
HandlerRespond(c) ==
    /\ calls[c].pc = "done"
    /\ calls[c].op # "none"
    /\ responses[c] = NoResponse
    /\ responses' = [responses EXCEPT ![c] =
          IF calls[c].op = "create"
          THEN CreateResponse(calls[c].ret.product, calls[c].ret.err)
          ELSE DeleteResponse(calls[c].ret.err)]
    /\ UNCHANGED <<producerVars, brokerVars, consumerVars>>
    /\ UNCHANGED <<brokerRestarts, listing, env, loaded, proc>>

\* ------------------------------------------- ListProducts (service.go, postgres.go)
defaultPageSize == 10
maxPageSize == 100

\* Go's int is 64 bits wide; the model keeps its wrap-around at a width the
\* checker's integers can hold
IntBits == 16
MaxInt == 2^(IntBits - 1) - 1

\* the value an int holds after an arithmetic result x (two's complement)
WrapInt(x) ==
    LET m == x % (2^IntBits)
    IN  IF m > MaxInt THEN m - 2^IntBits ELSE m

\* the page and limit arguments callers pass
Pages == {-1, 0, 1, 2, 3, MaxInt}
Limits == {-1, 0, 1, 2, 10, 100, 101, 500}

\* (mutant) the upper bound of the page size is not applied
NormalLimitUncapped(limit) == IF limit < 1 THEN defaultPageSize ELSE limit

\* ListProducts: if page < 1 { page = 1 }
NormalPage(page) == IF page < 1 THEN 1 ELSE page

\* ListProducts: if limit < 1 { limit = defaultPageSize }; if limit > maxPageSize { ... }
NormalLimit(limit) ==
    LET l == IF limit < 1 THEN defaultPageSize ELSE limit
    IN  IF l > maxPageSize THEN maxPageSize ELSE l

\* ListProducts: offset := (page - 1) * limit
Offset(page, limit) == WrapInt(WrapInt(page - 1) * limit)

\* the rows of a table as ORDER BY id DESC returns them
RECURSIVE Descending(_)
Descending(table) ==
    IF table = {} THEN <<>>
    ELSE LET top == CHOOSE p \in table : \A q \in table : q.id <= p.id
         IN  <<top>> \o Descending(table \ {top})

\* SELECT ... ORDER BY id DESC LIMIT $1 OFFSET $2 (the database rejects a
\* negative OFFSET)
RepoList(table, limit, offset, dbOK) ==
    IF ~dbOK \/ offset < 0 \/ limit < 0
    THEN [items |-> <<>>, err |-> Wrap("query products", ErrDB)]
    ELSE LET all == Descending(table)
             last == IF offset + limit < Len(all) THEN offset + limit ELSE Len(all)
         IN  [items |-> SubSeq(all, offset + 1, last), err |-> Nil]

\* SELECT COUNT(*) FROM products
RepoCount(table, dbOK) ==
    IF ~dbOK THEN [total |-> 0, err |-> Wrap("count products", ErrDB)]
    ELSE [total |-> Cardinality(table), err |-> Nil]

\* no response written yet
NoListResponse == [status |-> 0, page |-> 0, limit |-> 0, total |-> 0, items |-> <<>>,
                   error |-> <<>>]

IdleListing == [pc |-> "idle", page |-> 0, limit |-> 0, queries |-> <<>>,
                items |-> <<>>, total |-> 0, err |-> Nil, response |-> NoListResponse]

\* Service.ListProducts(ctx, page, limit)
ListProducts(page, limit) ==
    /\ listing.pc = "idle"
    /\ \E listOK \in BOOLEAN, countOK \in BOOLEAN :
         LET l == NormalLimit(limit)
             offset == Offset(NormalPage(page), l)
             listed == RepoList(rows, l, offset, listOK)
             counted == RepoCount(rows, countOK)
             begun == [IdleListing EXCEPT !.pc = "done", !.page = page, !.limit = limit]
             list == [op |-> "List", limit |-> l, offset |-> offset]
             count == [op |-> "Count", limit |-> 0, offset |-> 0]
         IN  listing' =
               IF listed.err # Nil
               THEN [begun EXCEPT !.queries = <<list>>, !.err = Wrap("repo list", listed.err)]
               ELSE IF counted.err # Nil
               THEN [begun EXCEPT !.queries = <<list, count>>,
                                  !.err = Wrap("repo count", counted.err)]
               ELSE [begun EXCEPT !.queries = <<list, count>>,
                                  !.items = listed.items, !.total = counted.total]
    /\ UNCHANGED <<producerVars, brokerVars, consumerVars>>
    /\ UNCHANGED <<brokerRestarts, responses, env, loaded, proc>>

\* ------------------------------------------- Handler.ListProducts (part_003)
StatusOK == 200
defaultPage == 1
defaultLimit == 10

\* the decimal text of the integer n, as a client writes it in a query string
RECURSIVE DecimalText(_)
DecimalText(n) ==
    IF n < 0 THEN <<"-">> \o DecimalText(0 - n)
    ELSE IF n < 10 THEN <<Digits[n + 1]>>
    ELSE DecimalText(n \div 10) \o <<Digits[(n % 10) + 1]>>

\* the number a run of decimal digits stands for
RECURSIVE DecimalValue(_)
DecimalValue(digits) ==
    IF digits = <<>> THEN 0
    ELSE DecimalValue(SubSeq(digits, 1, Len(digits) - 1)) * 10 + ParseInt(digits[Len(digits)])

\* strconv.Atoi(raw): an optional sign and decimal digits; a text that is not
\* of that form is a syntax error and a value that does not fit an int is a
\* range error
Atoi(raw) ==
    LET signed == raw # <<>> /\ raw[1] \in {"+", "-"}
        digits == IF signed THEN Tail(raw) ELSE raw
        value == IF signed /\ raw[1] = "-" THEN 0 - DecimalValue(digits)
                 ELSE DecimalValue(digits)
    IN  IF digits = <<>> \/ \E i \in DOMAIN digits : ~IsIntText(digits[i])
        THEN [value |-> 0, err |-> <<"strconv.Atoi: invalid syntax">>]
        ELSE IF value > MaxInt \/ value < 0 - MaxInt - 1
        THEN [value |-> 0, err |-> <<"strconv.Atoi: value out of range">>]
        ELSE [value |-> value, err |-> Nil]

\* parseQueryInt(raw, fallback)
parseQueryInt(raw, fallback) ==
    IF raw = <<>> THEN fallback
    ELSE IF Atoi(raw).err # Nil \/ Atoi(raw).value < 1 THEN fallback
    ELSE Atoi(raw).value

\* what c.Query gives for page and limit: the parameter is missing, is not a
\* number, is below 1, is a small number, is above the largest page size, is
\* the largest int, or is too large for an int
QueryValues ==
    {<<>>, <<"a", "b", "c">>}
      \cup {DecimalText(n) : n \in {-1, 0, 1, 2, 3, 101, 500, MaxInt, MaxInt + 1}}

\* Handler.ListProducts up to the return of h.service.ListProducts
HandlerListProducts(rawPage, rawLimit) ==
    /\ listing.response = NoListResponse
    /\ ListProducts(parseQueryInt(rawPage, defaultPage), parseQueryInt(rawLimit, defaultLimit))

\* Handler.ListProducts once the service returned (items, total, err); page
\* and limit are the handler's own variables, the values it passed on
ListResponse(page, limit, items, total, err) ==
    IF err # Nil
    THEN [NoListResponse EXCEPT !.status = StatusInternalServerError,
                                !.error = <<"failed to get products">>]
    ELSE [NoListResponse EXCEPT !.status = StatusOK, !.page = page, !.limit = limit,
                                !.total = total, !.items = items]

\* the handler writes the list response
HandlerListRespond ==
    /\ listing.pc = "done"
    /\ listing.response = NoListResponse
    /\ listing' = [listing EXCEPT !.response =
          ListResponse(listing.page, listing.limit, listing.items, listing.total, listing.err)]
    /\ UNCHANGED <<producerVars, brokerVars, consumerVars>>
    /\ UNCHANGED <<brokerRestarts, responses, env, loaded, proc>>

\* the tables ListProducts may find: some of the products 1..MaxRows are left
Tables == {{[id |-> i, name |-> <<"a">>, created_at |-> 1] : i \in S} : S \in SUBSET (1..MaxRows)}

\* ------------------------------------------------- configuration (part_000)
defaultHTTPAddr == ":8080"
defaultMigrationsPath == "migrations/products"
\* defaultShutdownTimeout = 10 * time.Second, in seconds
defaultShutdownTimeout == 10

EnvKeys == {"DATABASE_URL", "RABBITMQ_URL", "HTTP_ADDR", "MIGRATIONS_PATH"}

\* the value a variable has when the operator of the process sets it
EnvValue(key) ==
    CASE key = "DATABASE_URL" -> "postgres://localhost/db"
      [] key = "RABBITMQ_URL" -> "amqp://localhost"
      [] key = "HTTP_ADDR" -> ":9090"
      [] key = "MIGRATIONS_PATH" -> "db/migrations"

\* the environments a process is started in: each variable is unset, set to
\* the empty string, or set to its value
Envs ==
    {e \in UNION {[S -> {""} \cup {EnvValue(k) : k \in EnvKeys}] : S \in SUBSET EnvKeys} :
        \A k \in DOMAIN e : e[k] \in {"", EnvValue(k)}}

\* os.Getenv(key): the empty string for a variable that is not set
Getenv(key) == IF key \in DOMAIN env THEN env[key] ELSE ""

\* (mutant) getEnv ignores its fallback
getEnvWithoutFallback(key, fallback) == Getenv(key)

getEnv(key, fallback) ==
    LET value == Getenv(key)
    IN  IF value = "" THEN fallback ELSE value

\* Products{} and Notifications{}
ZeroProducts == [DatabaseURL |-> "", RabbitMQURL |-> "", HTTPAddr |-> "",
                 MigrationsPath |-> "", ShutdownTimeout |-> 0]
ZeroNotifications == [RabbitMQURL |-> "", ShutdownTimeout |-> 0]

NotLoaded == [pc |-> "idle", fn |-> "", cfg |-> ZeroNotifications, err |-> Nil]

\* config.LoadProducts()
LoadProducts ==
    /\ loaded.pc = "idle"
    /\ LET cfg == [DatabaseURL |-> getEnv("DATABASE_URL", ""),
                   RabbitMQURL |-> getEnv("RABBITMQ_URL", ""),
                   HTTPAddr |-> getEnv("HTTP_ADDR", defaultHTTPAddr),
                   MigrationsPath |-> getEnv("MIGRATIONS_PATH", defaultMigrationsPath),
                   ShutdownTimeout |-> defaultShutdownTimeout]
           done == [pc |-> "done", fn |-> "LoadProducts", cfg |-> ZeroProducts, err |-> Nil]
       IN  loaded' =
             IF cfg.DatabaseURL = ""
             THEN [done EXCEPT !.err = <<"DATABASE_URL is required">>]
             ELSE IF cfg.RabbitMQURL = ""
             THEN [done EXCEPT !.err = <<"RABBITMQ_URL is required">>]
             ELSE [done EXCEPT !.cfg = cfg]
    /\ UNCHANGED <<producerVars, brokerVars, consumerVars>>
    /\ UNCHANGED <<brokerRestarts, responses, listing, env, proc>>

\* config.LoadNotifications()
LoadNotifications ==
    /\ loaded.pc = "idle"
    /\ LET cfg == [RabbitMQURL |-> getEnv("RABBITMQ_URL", ""),
                   ShutdownTimeout |-> defaultShutdownTimeout]
           done == [pc |-> "done", fn |-> "LoadNotifications", cfg |-> ZeroNotifications,
                    err |-> Nil]
       IN  loaded' =
             IF cfg.RabbitMQURL = ""
             THEN [done EXCEPT !.err = <<"RABBITMQ_URL is required">>]
             ELSE [done EXCEPT !.cfg = cfg]
    /\ UNCHANGED <<producerVars, brokerVars, consumerVars>>
    /\ UNCHANGED <<brokerRestarts, responses, listing, env, proc>>

\* ------------------------------------------- notifications process (part_004)
\* run() before its first statement: no exit code, nothing on errCh, the
\* shutdown timer not created
NotRunning == [pc |-> "load", code |-> -1, failed |-> "", errCh |-> <<>>, sent |-> FALSE,
               got |-> "", timer |-> "none"]

\* run returns code: failed is the error run logged ("" for none), got is what
\* ended its wait for Listen ("" when it never waited)
Exited(code, failed, got) ==
    [proc EXCEPT !.pc = "exited", !.code = code, !.failed = failed, !.got = got]

\* (mutant) run returns 0 after logging that the consumer failed
ListenResultIgnored(err, failed) ==
    IF err # Nil THEN Exited(0, failed, "error") ELSE Exited(0, "", "nil")

\* run took err from errCh: `if err != nil { logger.Error(...); return 1 }`,
\* otherwise it goes on to `return 0`
ListenResult(err, failed) ==
    IF err # Nil THEN Exited(1, failed, "error") ELSE Exited(0, "", "nil")

\* the deferred consumer.Close() and conn.Close() of a returning run: the
\* channel closes and the broker requeues what was in flight on it
RunDeferred ==
    /\ chanOpen' = FALSE
    /\ ready' = Requeue(ready, {d.msg : d \in unacked})
    /\ unacked' = {}
    /\ UNCHANGED <<producerVars, consumerVars, bodies, acked, nextTag, consuming, msgs>>
    /\ UNCHANGED <<brokerRestarts, responses, listing, env, loaded>>

\* run: `cfg, err := config.LoadNotifications(); if err != nil { return 1 }`
RunConfigLoaded ==
    /\ proc.pc = "load"
    /\ loaded.pc = "done"
    /\ loaded.fn = "LoadNotifications"
    /\ proc' = IF loaded.err # Nil THEN Exited(1, "load config", "")
               ELSE [proc EXCEPT !.pc = "dial"]
    /\ UNCHANGED <<producerVars, brokerVars, consumerVars>>
    /\ UNCHANGED <<brokerRestarts, responses, listing, env, loaded>>

\* run: `conn, err := amqp.Dial(cfg.RabbitMQURL); if err != nil { return 1 }`
RunDial ==
    /\ proc.pc = "dial"
    /\ \E ok \in BOOLEAN :
         proc' = IF ok THEN [proc EXCEPT !.pc = "construct"]
                 ELSE Exited(1, "connect rabbitmq", "")
    /\ UNCHANGED <<producerVars, brokerVars, consumerVars>>
    /\ UNCHANGED <<brokerRestarts, responses, listing, env, loaded>>

\* run: `consumer, err := notifications.NewConsumer(...); if err != nil
\* { return 1 }` (the deferred conn.Close() runs), then signal.NotifyContext
\* and `go func() { errCh <- consumer.Listen(ctx) }()`
RunNewConsumer ==
    /\ proc.pc = "construct"
    /\ \E ok \in BOOLEAN :
         proc' = IF ok THEN [proc EXCEPT !.pc = "select"]
                 ELSE Exited(1, "init consumer", "")
    /\ UNCHANGED <<producerVars, brokerVars, consumerVars>>
    /\ UNCHANGED <<brokerRestarts, responses, listing, env, loaded>>

\* `errCh := make(chan error, 1)`: the capacity of the result channel
errChCap == 1

\* the goroutine: `errCh <- consumer.Listen(ctx)`; the send completes when
\* errCh has room
RunListenSend ==
    /\ proc.pc \in {"select", "drain"}
    /\ lpc = "returned"
    /\ ~proc.sent
    /\ Len(proc.errCh) < errChCap
    /\ proc' = [proc EXCEPT !.errCh = Append(proc.errCh, listenRet), !.sent = TRUE]
    /\ UNCHANGED <<producerVars, brokerVars, consumerVars>>
    /\ UNCHANGED <<brokerRestarts, responses, listing, env, loaded>>

\* SIGINT / SIGTERM once signal.NotifyContext has registered for them
RunSignal ==
    /\ proc.pc \in {"select", "drain"}
    /\ Signal

\* (mutant) after the signal run waits for errCh alone: no shutdown timer
RunShutdownWithoutTimer ==
    /\ proc.pc = "select"
    /\ ctxDone
    /\ proc' = [proc EXCEPT !.pc = "drain"]
    /\ UNCHANGED <<producerVars, brokerVars, consumerVars>>
    /\ UNCHANGED <<brokerRestarts, responses, listing, env, loaded>>

\* run, first select: case <-ctx.Done(); then the shutdown timer is created
RunShutdown ==
    /\ proc.pc = "select"
    /\ ctxDone
    /\ proc' = [proc EXCEPT !.pc = "drain", !.timer = "armed"]
    /\ UNCHANGED <<producerVars, brokerVars, consumerVars>>
    /\ UNCHANGED <<brokerRestarts, responses, listing, env, loaded>>

\* run, first select: case err := <-errCh
RunSelectResult ==
    /\ proc.pc = "select"
    /\ proc.errCh # <<>>
    /\ proc' = [ListenResult(Head(proc.errCh), "consumer failed") EXCEPT !.errCh = <<>>]
    /\ RunDeferred

\* the shutdown timer fires cfg.ShutdownTimeout after it was created
TimerElapses ==
    /\ proc.pc = "drain"
    /\ proc.timer = "armed"
    /\ proc' = [proc EXCEPT !.timer = "fired"]
    /\ UNCHANGED <<producerVars, brokerVars, consumerVars>>
    /\ UNCHANGED <<brokerRestarts, responses, listing, env, loaded>>

\* run, second select: case err := <-errCh
RunDrainResult ==
    /\ proc.pc = "drain"
    /\ proc.errCh # <<>>
    /\ proc' = [ListenResult(Head(proc.errCh), "consumer stop failed") EXCEPT !.errCh = <<>>]
    /\ RunDeferred

\* run, second select: case <-shutdownDeadline.C
RunDrainTimeout ==
    /\ proc.pc = "drain"
    /\ proc.timer = "fired"
    /\ proc' = Exited(0, "", "timeout")
    /\ RunDeferred

\* ------------------------------------------------ states before any request
NoEnv == [k \in {} |-> ""]


Init ==
    /\ rows = {}
    /\ nextID = 1
    /\ clock = 1
    /\ calls = [c \in CallIds |-> IdleCall]
    /\ events = <<>>
    /\ created = 0
    /\ deleted = 0
    /\ bodies = <<>>
    /\ ready = <<>>
    /\ unacked = {}
    /\ acked = {}
    /\ nextTag = 1
    /\ chanOpen = TRUE
    /\ consuming = FALSE
    /\ msgs = <<>>
    /\ lpc = "start"
    /\ cur = NoDelivery
    /\ herr = Nil
    /\ ctxDone = FALSE
    /\ listenRet = NotReturned
    /\ restarts = 0
    /\ trace = <<>>
    /\ brokerRestarts = 0
    /\ responses = [c \in CallIds |-> NoResponse]
    /\ listing = IdleListing
    /\ env = NoEnv
    /\ loaded = NotLoaded
    /\ proc = NotRunning

Next ==
    \/ \E c \in CallIds, rawName \in InputNames : CreateProduct(c, rawName)
    \/ \E c \in CallIds, id \in DeleteIds : DeleteProduct(c, id)
    \/ \E c \in CallIds : BuildEvent(c)
    \/ \E c \in CallIds : Publish(c)
    \/ \E c \in CallIds : ServiceReturn(c)

Spec == Init /\ [][Next]_vars

\* the state after construction when the products table holds table, its id
\* sequence stands at seq and the process environment is environment
Started(table, seq, environment) ==
    /\ rows = table
    /\ nextID = seq
    /\ clock = 1
    /\ calls = [c \in CallIds |-> IdleCall]
    /\ events = <<>>
    /\ created = 0
    /\ deleted = 0
    /\ bodies = <<>>
    /\ ready = <<>>
    /\ unacked = {}
    /\ acked = {}
    /\ nextTag = 1
    /\ chanOpen = TRUE
    /\ consuming = FALSE
    /\ msgs = <<>>
    /\ lpc = "start"
    /\ cur = NoDelivery
    /\ herr = Nil
    /\ ctxDone = FALSE
    /\ listenRet = NotReturned
    /\ restarts = 0
    /\ trace = <<>>
    /\ brokerRestarts = 0
    /\ responses = [c \in CallIds |-> NoResponse]
    /\ listing = IdleListing
    /\ env = environment
    /\ loaded = NotLoaded
    /\ proc = NotRunning

\* the products process is started on a table written by earlier runs
InitList == \E table \in Tables : Started(table, MaxRows + 1, NoEnv)

\* the product an earlier run of the products process left in the table
SeedProduct == [id |-> 1, name |-> <<"a">>, created_at |-> 1]

InitSeeded == Started({SeedProduct}, 2, NoEnv)

\* the products service on a table that already holds a product
SpecSeeded == InitSeeded /\ [][Next]_vars

NextList == \E page \in Pages, limit \in Limits : ListProducts(page, limit)

SpecList == InitList /\ [][NextList]_vars

\* GET /products behind its handler
NextListHTTP ==
    \/ \E rawPage \in QueryValues, rawLimit \in QueryValues : HandlerListProducts(rawPage, rawLimit)
    \/ HandlerListRespond

SpecListHTTP == InitList /\ [][NextListHTTP]_vars

\* the products process behind its HTTP handlers
NextHTTP ==
    \/ \E c \in CallIds, body \in RequestBodies : HandlerCreateProduct(c, body)
    \/ \E c \in CallIds, raw \in RawIds : HandlerDeleteProduct(c, raw)
    \/ \E c \in CallIds : BuildEvent(c)
    \/ \E c \in CallIds : Publish(c)
    \/ \E c \in CallIds : ServiceReturn(c)
    \/ \E c \in CallIds : HandlerRespond(c)

SpecHTTP == Init /\ [][NextHTTP]_vars

\* a process is started in some environment and loads its configuration
InitConfig == \E environment \in Envs : Started({}, 1, environment)

NextConfig ==
    \/ LoadProducts
    \/ LoadNotifications

SpecConfig == InitConfig /\ [][NextConfig]_vars

\* the notifications process and the queue it drains
NextConsumer ==
    \/ \E body \in ServiceBodies \cup ForeignBodies : ProducerSend(body)
    \/ Deliver
    \/ ChannelClose
    \/ Signal
    \/ Restart
    \/ ListenConsume
    \/ ListenCancelled
    \/ ListenReceive
    \/ ListenMsgsClosed
    \/ ListenHandle
    \/ ListenResolve

SpecConsumer == Init /\ [][NextConsumer]_vars

\* a step of the goroutine that runs Listen
ListenStep ==
    \/ ListenConsume
    \/ ListenCancelled
    \/ ListenReceive
    \/ ListenMsgsClosed
    \/ ListenHandle
    \/ ListenResolve

\* one run of the consumer: the Go scheduler keeps running the goroutine of
\* Listen while it can take a step, and the broker keeps delivering what is
\* ready to a registered consumer
NextListen ==
    \/ \E body \in ServiceBodies \cup ForeignBodies : ProducerSend(body)
    \/ Deliver
    \/ ChannelClose
    \/ Signal
    \/ ListenStep

SpecListen == Init /\ [][NextListen]_vars /\ WF_vars(ListenStep) /\ WF_vars(Deliver)

\* the consumer on a queue that producers of other versions also write to
NextWire ==
    \/ \E body \in ServiceBodies \cup MismatchedBodies : ProducerSend(body)
    \/ Deliver
    \/ ListenConsume
    \/ ListenReceive
    \/ ListenHandle
    \/ ListenResolve

SpecWire == Init /\ [][NextWire]_vars

\* the goroutine run started takes a step of Listen; it ends with the process
RunListen ==
    /\ proc.pc \in {"select", "drain"}
    /\ ListenStep

\* the environments of the notifications process: RABBITMQ_URL unset, empty or set
RunEnvs == {e \in Envs : DOMAIN e \subseteq {"RABBITMQ_URL"}}

InitRun == \E environment \in RunEnvs : Started({}, 1, environment)

\* the notifications process from the start of run() to its return, and the
\* broker it talks to
NextRun ==
    \/ LoadNotifications
    \/ RunConfigLoaded
    \/ RunDial
    \/ RunNewConsumer
    \/ RunListen
    \/ RunListenSend
    \/ RunSignal
    \/ RunShutdown
    \/ RunSelectResult
    \/ TimerElapses
    \/ RunDrainResult
    \/ RunDrainTimeout
    \/ \E body \in ServiceBodies \cup ForeignBodies : ProducerSend(body)
    \/ Deliver
    \/ ChannelClose

SpecRun == InitRun /\ [][NextRun]_vars

\* what the goroutine of run does while it waits for the consumer: its two
\* selects
RunWait ==
    \/ RunShutdown
    \/ RunSelectResult
    \/ RunDrainResult
    \/ RunDrainTimeout

\* the process under the Go scheduler and the clock: the goroutine of run is
\* run while one of the cases of its select is ready, and the shutdown timer
\* fires once its duration has passed.  Nothing is assumed of the goroutine
\* of Listen, which may be held up for any length of time
SpecShutdown == InitRun /\ [][NextRun]_vars /\ WF_vars(RunWait) /\ WF_vars(TimerElapses)

\* the record of what the consumer did is cut while Listen waits with nothing
\* in flight: the trace starts afresh and the delivery tags are counted from 1
\* again (a tag only identifies a delivery that is outstanding).  With this
\* step a message that is requeued again and again is delivered without end.
Forget ==
    /\ lpc = "select"
    /\ unacked = {}
    /\ msgs = <<>>
    /\ trace # <<>>
    /\ trace' = <<>>
    /\ nextTag' = 1
    /\ UNCHANGED <<producerVars, otherVars, bodies, ready, unacked, acked, chanOpen, consuming,
                   msgs, lpc, cur, herr, ctxDone, listenRet, restarts>>

\* one run of the consumer with deliveries that never run out.  The select of
\* Listen chooses among its ready cases uniformly at random, so a case that is
\* ready again and again is chosen in the end: strong fairness of the
\* cancellation case
NextRace ==
    \/ \E body \in ServiceBodies \cup ForeignBodies : ProducerSend(body)
    \/ Deliver
    \/ ChannelClose
    \/ Signal
    \/ ListenStep
    \/ Forget

SpecRace == Init /\ [][NextRace]_vars /\ WF_vars(ListenStep) /\ SF_vars(ListenCancelled)

\* the same, with a broker that may be restarted
NextBroker ==
    \/ NextConsumer
    \/ BrokerRestart

SpecBroker == Init /\ [][NextBroker]_vars

\* ===================================================================== claims
Returned(c) == calls[c].pc = "done"
Mutated(c) == calls[c].pc \in {"mutated", "built", "published"}
                \/ (Returned(c) /\ calls[c].ret.err = Nil)
PublishFailed(c) == calls[c].pc \in {"published", "done"} /\ calls[c].pubErr # Nil
RowIds == {p.id : p \in rows}

\* C1: when the store mutation succeeded and Publish then returned an error,
\* CreateProduct / DeleteProduct still return a nil error (create: together
\* with the stored product) and the mutation stays in the store: the created
\* row is there unless a DeleteProduct removed it, the deleted row is gone.
C1_PublishFailureAbsorbed ==
    \A c \in CallIds :
        (Returned(c) /\ PublishFailed(c)) =>
            /\ calls[c].ret.err = Nil
            /\ calls[c].op = "create" =>
                 /\ calls[c].ret.product = calls[c].product
                 /\ calls[c].ret.product.name = TrimSpace(calls[c].name)
                 /\ \/ calls[c].product \in rows
                    \/ \E d \in CallIds : /\ calls[d].op = "delete"
                                          /\ calls[d].id = calls[c].product.id
                                          /\ Mutated(d)
            /\ calls[c].op = "delete" => calls[c].id \notin RowIds

\* a create and a delete have both returned after their Publish failed
C1_Witness ==
    /\ \E c \in CallIds : Returned(c) /\ PublishFailed(c) /\ calls[c].op = "create"
    /\ \E c \in CallIds : Returned(c) /\ PublishFailed(c) /\ calls[c].op = "delete"

\* ---- the consumer's trace
Msgs == 1..Len(bodies)
Tags == 1..(nextTag - 1)
At(kind) == {i \in DOMAIN trace : trace[i].kind = kind}
OfTag(kind, t) == {i \in At(kind) : trace[i].tag = t}
OfMsg(kind, m) == {i \in At(kind) : trace[i].msg = m}
InFlight == {d.msg : d \in unacked} \cup {msgs[i].msg : i \in DOMAIN msgs}
Resolving(t) == lpc = "handled" /\ cur.tag = t

\* C2 (as amended): every delivery the consumer deserializes and logs gets
\* exactly one Ack call, after the log entry, and no Nack; and a message whose
\* acknowledgment the broker accepted is never on the queue, in flight or in
\* the consumer's hands again.
C2_AckOncePerLoggedDelivery ==
    /\ \A t \in Tags : \A i \in OfTag("info", t) :
          /\ OfTag("nack", t) = {}
          /\ Cardinality(OfTag("ack", t)) = IF Resolving(t) THEN 0 ELSE 1
          /\ \A j \in OfTag("ack", t) : i < j
    /\ acked = {trace[j].msg : j \in {k \in At("ack") : trace[k].ok}}
    /\ \A m \in acked : /\ m \notin Range(ready)
                        /\ m \notin InFlight
                        /\ cur.msg # m

\* a logged message was acknowledged and the broker accepted it, and another
\* logged message's Ack was refused because the channel had closed
C2_Witness ==
    /\ \E j \in At("ack") : trace[j].ok /\ OfMsg("info", trace[j].msg) # {}
    /\ \E j \in At("ack") : ~trace[j].ok /\ OfMsg("info", trace[j].msg) # {}

\* C2 (as claimed): every message the consumer deserialized and logged is
\* acknowledged exactly once, and after the acknowledgment it is never on the
\* queue nor delivered again.
C2_AckedOnceAndGone ==
    \A m \in Msgs :
        (OfMsg("info", m) # {} /\ ~(lpc = "handled" /\ cur.msg = m)) =>
            /\ Cardinality(OfMsg("ack", m)) = 1
            /\ m \notin Range(ready)
            /\ m \notin InFlight

Poison(m) == Unmarshal(bodies[m]).err # Nil
Handled(t) == OfTag("info", t) \cup OfTag("error", t) # {}

\* C3: for every delivery whose body does not deserialize the consumer logs an
\* error entry (and no event entry), never calls Ack, calls Nack exactly once
\* with requeue = true after that entry; the message is never acknowledged or
\* dropped: it is back on the queue or in flight, available to a later receive.
C3_FailedMessageRequeued ==
    /\ \A i \in At("info") \cup At("error") :
          (trace[i].kind = "error") <=> Poison(trace[i].msg)
    /\ lpc = "handled" => Handled(cur.tag)
    /\ \A t \in Tags : \A i \in OfTag("error", t) :
          /\ OfTag("info", t) = {}
          /\ OfTag("ack", t) = {}
          /\ Cardinality(OfTag("nack", t)) = IF Resolving(t) THEN 0 ELSE 1
          /\ \A j \in OfTag("nack", t) : i < j /\ trace[j].requeue
    /\ \A m \in Msgs : Poison(m) =>
          /\ m \notin acked
          /\ OfMsg("ack", m) = {}
          /\ m \in Range(ready) \cup {d.msg : d \in unacked}

\* a message that failed to deserialize was nacked with requeue, delivered
\* again under a new delivery tag and failed again
C3_Witness ==
    \E i \in At("nack"), j \in At("error") :
        /\ trace[i].ok /\ trace[i].requeue
        /\ i < j
        /\ trace[j].msg = trace[i].msg
        /\ trace[j].tag # trace[i].tag

Failed(c) == Returned(c) /\ calls[c].ret.err # Nil
PublishedBy(c) == {i \in DOMAIN events : events[i].call = c}

\* C4: Publish is invoked only for a mutation that succeeded.  A call fails
\* exactly when the trimmed name is empty (ErrInvalidName, the store is not
\* called) or the store returned an error; then no event is published for it
\* and the returned error wraps the store's error (ErrNotFound included).
C4_NoEventForFailedMutation ==
    /\ \A i \in DOMAIN events :
          LET c == events[i].call
          IN  calls[c].repoErr = Nil /\ calls[c].pc \in {"published", "done"}
              /\ ~Failed(c)
    /\ \A c \in CallIds : Failed(c) =>
          /\ PublishedBy(c) = {}
          /\ calls[c].event = ZeroEvent
          /\ calls[c].ret.product = ZeroProduct
          /\ IF calls[c].op = "create" /\ TrimSpace(calls[c].name) = <<>>
             THEN calls[c].ret.err = ErrInvalidName /\ calls[c].repoErr = Nil
             ELSE /\ calls[c].repoErr # Nil
                  /\ calls[c].ret.err # calls[c].repoErr
                  /\ ErrorsIs(calls[c].ret.err, calls[c].repoErr)
    /\ \A c \in CallIds :
          (Returned(c) /\ calls[c].op = "delete" /\ calls[c].repoErr = ErrNotFound)
              => ErrorsIs(calls[c].ret.err, ErrNotFound)

\* one call was rejected for its name and another failed in the store with
\* ErrNotFound, while nothing was published
C4_Witness ==
    /\ \E c \in CallIds : Failed(c) /\ calls[c].ret.err = ErrInvalidName
    /\ \E c \in CallIds : Failed(c) /\ calls[c].repoErr = ErrNotFound
    /\ events = <<>>

Succeeded(c) == Returned(c) /\ calls[c].ret.err = Nil

\* t is raw without its leading and trailing white space
IsTrimOf(t, raw) ==
    /\ t # <<>> => ~IsSpace(t[1]) /\ ~IsSpace(t[Len(t)])
    /\ \E i \in 0..Len(raw) :
          /\ i + Len(t) <= Len(raw)
          /\ \A k \in 1..Len(t) : raw[i + k] = t[k]
          /\ \A k \in 1..Len(raw) : (k <= i \/ k > i + Len(t)) => IsSpace(raw[k])

\* C5: a CreateProduct that succeeded had a name that is not empty once
\* trimmed, and invoked Publish with exactly one event: event_type
\* product_created, name the trimmed input name, product_id the id of the
\* product this call created (the one it returns, given to no other call).
C5_CreatedEventMatchesProduct ==
    \A c \in CallIds : (calls[c].op = "create" /\ Succeeded(c)) =>
        /\ ~IsTrimOf(<<>>, calls[c].name)
        /\ Cardinality(PublishedBy(c)) = 1
        /\ \A i \in PublishedBy(c) :
              /\ events[i].event.event_type = EventCreated
              /\ IsTrimOf(events[i].event.name, calls[c].name)
              /\ events[i].event.product_id = calls[c].ret.product.id
              /\ events[i].event.product_id \in 1..(nextID - 1)
              /\ events[i].err = Nil => \E m \in Msgs : bodies[m] = Marshal(events[i].event)
        /\ \A d \in CallIds \ {c} : calls[d].op = "create" =>
              calls[d].product.id # calls[c].ret.product.id

\* a create whose input name carried white space around it has succeeded
C5_Witness ==
    \E c \in CallIds : /\ calls[c].op = "create" /\ Succeeded(c)
                       /\ calls[c].name # calls[c].ret.product.name
                       /\ \E i \in PublishedBy(c) : events[i].err = Nil

\* C6: a DeleteProduct whose store deletion succeeded has, once it returns,
\* invoked Publish exactly once, with event_type product_deleted and
\* product_id the deleted id; the serialized event has no name field, and the
\* deleted row is gone.
C6_OneDeletedEventWithoutName ==
    \A c \in CallIds : (calls[c].op = "delete" /\ calls[c].repoErr = Nil) =>
        /\ Cardinality(PublishedBy(c)) =
              IF calls[c].pc \in {"published", "done"} THEN 1 ELSE 0
        /\ Returned(c) => Succeeded(c)
        /\ Mutated(c) => calls[c].id \notin RowIds
        /\ \A i \in PublishedBy(c) :
              /\ events[i].event.event_type = EventDeleted
              /\ events[i].event.product_id = calls[c].id
              /\ "name" \notin DOMAIN Marshal(events[i].event).obj
              /\ DOMAIN Marshal(events[i].event).obj = {"event_type", "product_id", "timestamp"}
              /\ events[i].err = Nil =>
                    \E m \in Msgs : /\ bodies[m] = Marshal(events[i].event)
                                    /\ "name" \notin DOMAIN bodies[m].obj

\* a delete of an existing product has returned and its event is on the queue
C6_Witness ==
    \E c \in CallIds : /\ calls[c].op = "delete" /\ Succeeded(c)
                       /\ \E i \in PublishedBy(c) : events[i].err = Nil

\* C7: for every mutation that succeeded Publish is invoked exactly once, and
\* that is before the call returns; a failed Publish is not repeated, and no
\* event reaches the queue other than through the one send of its Publish
\* (every message on the broker is the payload of a Publish that succeeded).
C7_PublishAttemptedOnce ==
    /\ \A c \in CallIds :
          Cardinality(PublishedBy(c)) =
              IF Mutated(c) /\ calls[c].pc \in {"published", "done"} THEN 1 ELSE 0
    /\ \A c \in CallIds : PublishFailed(c) =>
          \A i \in PublishedBy(c) : events[i].err = calls[c].pubErr
    /\ Len(bodies) = Cardinality({i \in DOMAIN events : events[i].err = Nil})

\* every call has returned; one Publish failed and was not repeated, another
\* one succeeded
C7_Witness ==
    /\ \A c \in CallIds : Returned(c)
    /\ \E c \in CallIds : PublishFailed(c) /\ Cardinality(PublishedBy(c)) = 1
    /\ \E i \in DOMAIN events : events[i].err = Nil

Resolved(t) == Cardinality(OfTag("ack", t) \cup OfTag("nack", t)) = 1

\* C8: Listen returns on cancellation only from its wait in select: whenever
\* Listen has returned after Consume succeeded (the signal having fired or
\* not) it returned nil and it holds no delivery: every delivery it received
\* has its log entry and its one Ack or Nack call.  While a delivery is being
\* processed Listen has not returned.
C8_CancelledWhileWaiting ==
    /\ (lpc = "returned" /\ consuming) =>
          /\ listenRet = Nil
          /\ cur = NoDelivery
          /\ herr = Nil
          /\ \A t \in Tags : Handled(t) => Resolved(t)
    /\ cur # NoDelivery <=> lpc \in {"handling", "handled"}
    /\ lpc \in {"handling", "handled"} => listenRet = NotReturned

\* the signal fired while Listen was waiting with the channel open; Listen
\* returned nil after having processed a message, and a delivery it never
\* received is still in flight
C8_Witness ==
    /\ lpc = "returned" /\ ctxDone /\ chanOpen /\ restarts = 0
    /\ listenRet = Nil
    /\ \E t \in Tags : Handled(t)
    /\ msgs # <<>>

\* the event of the scenario: a created event as the service serializes it
WidgetEvent == [event_type |-> "product_created", product_id |-> 7, name |-> <<"a">>,
                timestamp |-> 1]
WidgetBody ==
    [event_type |-> JString("product_created"), product_id |-> JNumber("7"),
     name |-> JString(<<"a">>), timestamp |-> JString("2026-01-01T00:00:01Z")]

\* C9: every delivery whose body deserializes gets exactly one info entry and
\* no error entry; the entry carries event_type, product_id, name and
\* timestamp as decoded from the body (for the scenario's body: the four
\* values the producer wrote), and it precedes every Ack call for the delivery.
C9_InfoEntryBeforeAck ==
    /\ \A i \in At("info") :
          LET m == trace[i].msg
              t == trace[i].tag
          IN  /\ ~Poison(m)
              /\ trace[i].event = Unmarshal(bodies[m]).event
              /\ (bodies[m].wf /\ bodies[m].obj = WidgetBody) => trace[i].event = WidgetEvent
              /\ OfTag("info", t) = {i}
              /\ OfTag("error", t) = {}
              /\ \A j \in OfTag("ack", t) \cup OfTag("nack", t) : i < j
    /\ \A j \in At("ack") : OfTag("info", trace[j].tag) # {}
    /\ (lpc = "handled" /\ ~Poison(cur.msg)) => OfTag("info", cur.tag) # {}

\* the scenario's message was logged with its four fields and then acknowledged
C9_Witness ==
    \E i \in At("info"), j \in At("ack") :
        /\ trace[i].event = WidgetEvent
        /\ trace[j].tag = trace[i].tag
        /\ trace[j].ok
        /\ i < j

ThisRun == {i \in DOMAIN trace : trace[i].run = restarts}

\* C10: when Listen has returned without the signal having fired, after a
\* Consume that succeeded, the delivery channel was closed and it returned
\* nil; when Consume failed, Listen returned a non-nil error that wraps the
\* cause, and in that run it received and processed nothing: no delivery was
\* made, no log entry written, no Ack or Nack called.
C10_ReturnOnCloseAndOnConsumeFailure ==
    /\ (lpc = "returned" /\ consuming /\ ~ctxDone) => ~chanOpen /\ listenRet = Nil
    /\ (lpc = "returned" /\ ~consuming) =>
          /\ listenRet # Nil
          /\ ErrorsIs(listenRet, ErrTransport)
          /\ cur = NoDelivery
          /\ msgs = <<>>
          /\ unacked = {}
          /\ \A i \in ThisRun : trace[i].kind = "returned" /\ ~trace[i].ok
    /\ lpc = "returned" <=> listenRet # NotReturned
    /\ \A i \in At("returned") : ~trace[i].ok =>
          \A j \in DOMAIN trace : trace[j].run = trace[i].run => j = i

\* a first run ended with an error because its Consume failed; the process
\* was started again, handled a message and, no signal having fired, returned
\* nil when the channel was closed under it
C10_Witness ==
    /\ lpc = "returned" /\ consuming /\ ~ctxDone /\ ~chanOpen /\ listenRet = Nil
    /\ restarts = 1
    /\ \E i \in At("returned") : trace[i].run = 0 /\ ~trace[i].ok
    /\ \E i \in At("info") \cup At("error") : trace[i].run = 1

OnBroker == Range(ready) \cup {d.msg : d \in unacked}
Copies(m) == Cardinality({i \in DOMAIN ready : ready[i] = m})
              + Cardinality({d \in unacked : d.msg = m})

\* C11: every message the broker accepted is on the broker, exactly once
\* (ready, or in flight on the consumer's channel), in every state in which no
\* acknowledgment of the consumer was accepted for it; whatever else happened
\* to it (Nack, cancellation, channel close, restart of the consumer) it is
\* still there, and a message that is gone has an accepted Ack call.
C11_QueuedUntilAcknowledged ==
    \A m \in Msgs :
        /\ m \notin acked => Copies(m) = 1
        /\ m \in acked => Copies(m) = 0
        /\ m \in acked <=> \E j \in OfMsg("ack", m) : trace[j].ok

\* a message was negatively acknowledged, the consumer returned and was
\* started again, the channel of the second run was closed under a delivery:
\* the message is still ready on the queue
C11_Witness ==
    /\ restarts = 1 /\ ~chanOpen
    /\ \E i \in At("nack") : /\ trace[i].ok /\ trace[i].run = 0
                              /\ trace[i].msg \in Range(ready)
                              /\ \E t \in Tags : t > trace[i].tag /\ t \notin {d.tag : d \in unacked}
    /\ \E i \in At("returned") : trace[i].run = 0 /\ trace[i].ok

\* C12: once the broker has restarted, every message Publish handed to the
\* queue and no consumer acknowledged is still in the queue.
C12_PublishedSurvivesBrokerRestart ==
    brokerRestarts > 0 =>
        \A m \in Msgs \ acked : m \in Range(ready) \cup {d.msg : d \in unacked}

ConsumerGone == lpc = "returned" \/ ~chanOpen
Nacks(m) == Cardinality(OfMsg("nack", m))

\* C13: a message whose body never deserializes is never acknowledged and
\* never dropped: every resolution of it is a Nack with requeue and it stays on
\* the broker; and while the consumer keeps running (Listen has not returned,
\* its channel is open) every Nack of it is followed by another delivery and
\* another Nack, as many times as the broker is allowed deliveries.
C13_PoisonRedeliveredWithoutBound ==
    /\ [](\A m \in Msgs : Poison(m) =>
              /\ m \notin acked
              /\ Copies(m) = 1
              /\ OfMsg("ack", m) = {}
              /\ \A j \in OfMsg("nack", m) : trace[j].requeue)
    /\ \A m \in 1..MaxMsgs, n \in 0..MaxDeliveries :
          [](m \in Msgs /\ Poison(m) /\ Nacks(m) = n
                => <>(Nacks(m) > n \/ ConsumerGone \/ nextTag > MaxDeliveries))

\* the consumer is still running and has negatively acknowledged the same
\* message after each of its deliveries, up to the last delivery allowed
C13_Witness ==
    /\ ~ConsumerGone /\ lpc = "select"
    /\ \E m \in Msgs : Poison(m) /\ Nacks(m) = MaxDeliveries /\ m \in Range(ready)

Untouched(m) == \A i \in DOMAIN trace : trace[i].msg # m

\* C14 (as amended): Listen does not drain the queue on cancellation.  Once it
\* has returned it holds no delivery and its return is the last thing it did
\* (no Ack, no Nack after it); it acknowledges only deliveries it processed;
\* every message without an accepted acknowledgment is still on the broker,
\* and when the consumer is started again all of them are ready on the queue.
C14_ReturnsWithoutDraining ==
    /\ lpc = "returned" =>
          /\ cur = NoDelivery
          /\ trace # <<>>
          /\ trace[Len(trace)].kind = "returned" /\ trace[Len(trace)].run = restarts
    /\ \A j \in At("ack") : \E i \in OfTag("info", trace[j].tag) : i < j
    /\ \A m \in acked : OfMsg("info", m) # {}
    /\ \A m \in Msgs \ acked : m \in OnBroker
    /\ (restarts > 0 /\ lpc = "start") =>
          /\ unacked = {} /\ msgs = <<>>
          /\ \A m \in Msgs \ acked : m \in Range(ready)

\* the signal fired and Listen returned while one delivery it never received
\* was waiting in the delivery channel and another message was still ready
C14_Witness ==
    /\ lpc = "returned" /\ ctxDone /\ chanOpen /\ listenRet = Nil
    /\ \E i \in DOMAIN msgs : Untouched(msgs[i].msg) /\ msgs[i] \in unacked
    /\ \E m \in Range(ready) : Untouched(m)

\* C14 (as claimed): once the signal has fired and Listen is between two
\* messages it takes up no further delivery, so that what was unprocessed at
\* the signal is not logged and acknowledged by this consumer.
C14_NothingTakenUpAfterSignal ==
    [][(ctxDone /\ lpc = "select") => lpc' # "handling"]_vars

Listed == listing.pc = "done"

\* C15: ListProducts queries the store first with List(limit, offset) where
\* page < 1 counts as 1, limit < 1 as 10, limit > 100 as 100 and offset is the
\* int product (page - 1) * limit; when both queries succeed it then queries
\* Count and returns that count as total, together with the rows List gave:
\* at most limit rows, in descending id order, after skipping offset rows.
C15_ListArgumentsNormalised ==
    Listed =>
        LET page == IF listing.page < 1 THEN 1 ELSE listing.page
            limit == IF listing.limit < 1 THEN 10
                     ELSE IF listing.limit > 100 THEN 100 ELSE listing.limit
        IN  /\ Len(listing.queries) \in {1, 2}
            /\ listing.queries[1] =
                  [op |-> "List", limit |-> limit, offset |-> WrapInt((page - 1) * limit)]
            /\ listing.queries[1].limit \in 1..100
            /\ listing.err = Nil =>
                  /\ Len(listing.queries) = 2 /\ listing.queries[2].op = "Count"
                  /\ listing.total = Cardinality(rows)
                  /\ Len(listing.items) <= limit
                  /\ Len(listing.items) <= Cardinality(rows)
                  /\ \A i \in DOMAIN listing.items :
                        /\ listing.items[i] \in rows
                        /\ Cardinality({p \in rows : p.id > listing.items[i].id})
                              = (page - 1) * limit + i - 1
            /\ listing.err # Nil => listing.items = <<>> /\ listing.total = 0

\* page 2 with limit 2 of a table of three rows: the store was asked for
\* limit 2 offset 2 and the one remaining row came back with total 3
C15_Witness ==
    /\ Listed /\ listing.page = 2 /\ listing.limit = 2 /\ listing.err = Nil
    /\ listing.queries[1].offset = 2
    /\ Len(listing.items) = 1 /\ listing.total = 3

Responded(c) == responses[c].status # 0
NotCalled(c) == calls[c] = [IdleCall EXCEPT !.pc = "done"] /\ PublishedBy(c) = {}

\* C16: the status of every response.  Create: 201 with the stored product
\* exactly when the service succeeded; 400 exactly when the body did not bind
\* (not JSON, name missing or empty: the service is not called) or the service
\* returned ErrInvalidName; 500 for every other error.  Delete: 204 exactly
\* when the service succeeded; 400 exactly when the id is not an integer (the
\* service is not called); 404 exactly when the error is ErrNotFound, which
\* the service hands over wrapped; 500 for every other error.
C16_StatusCodes ==
    \A c \in CallIds :
        LET r == responses[c]
            k == calls[c]
        IN  /\ (Returned(c) /\ k.op = "none") => Responded(c)
            /\ Responded(c) =>
                  /\ Returned(c)
                  /\ k.op \in {"none", r.handler}
                  /\ k.op = "none" => NotCalled(c)
            /\ (Responded(c) /\ r.handler = "create") =>
                  /\ r.status \in {201, 400, 500}
                  /\ r.status = 201 <=> (k.op = "create" /\ k.ret.err = Nil)
                  /\ r.status = 201 => r.product = k.product /\ r.product.id >= 1
                  /\ r.status = 400 <=>
                        (k.op = "none" \/ (k.op = "create" /\ TrimSpace(k.name) = <<>>))
                  /\ r.status = 500 <=> ErrorsIs(k.repoErr, ErrDB)
                  /\ r.status # 201 => r.product = ZeroProduct /\ r.error # <<>>
            /\ (Responded(c) /\ r.handler = "delete") =>
                  /\ r.status \in {204, 400, 404, 500}
                  /\ r.status = 204 <=> (k.op = "delete" /\ k.ret.err = Nil)
                  /\ r.status = 400 <=> k.op = "none"
                  /\ r.status = 404 <=> k.repoErr = ErrNotFound
                  /\ r.status = 404 => k.ret.err # ErrNotFound /\ ErrorsIs(k.ret.err, ErrNotFound)
                  /\ r.status = 500 <=> ErrorsIs(k.repoErr, ErrDB)

\* a delete of a missing product was answered 404 for the wrapped ErrNotFound
\* and a delete with a path parameter that is no integer was answered 400
C16_Witness ==
    /\ \E c \in CallIds : responses[c].status = 404 /\ calls[c].ret.err # ErrNotFound
    /\ \E c \in CallIds : /\ responses[c].status = 400 /\ responses[c].handler = "delete"
                           /\ calls[c].op = "none"

DeleteOf(c, id) == calls[c].op = "delete" /\ calls[c].id = id
Deleting(c, id) == DeleteOf(c, id) /\ calls[c].repoErr = Nil
ExistedBefore(c, id) ==
    \/ \E p \in {SeedProduct} : p.id = id
    \/ \E d \in CallIds : /\ d < c /\ calls[d].op = "create"
                          /\ calls[d].product # ZeroProduct /\ calls[d].product.id = id
DeletedBefore(c, id) == \E d \in CallIds : d < c /\ Deleting(d, id)
DeletedEvents(id) ==
    {i \in DOMAIN events : /\ events[i].event.event_type = EventDeleted
                           /\ events[i].event.product_id = id}

\* C17: for every id at most one Delete succeeds, and once it has the row
\* stays gone; a Delete the database executed succeeds exactly when the id
\* existed and was not deleted before, and returns ErrNotFound otherwise
\* (after a successful Delete of the id, or for an id that never existed),
\* leaving the table as it was; at most one product_deleted event is
\* published per id.
C17_DeleteSucceedsAtMostOnce ==
    /\ [](\A id \in 0..nextID :
            /\ Cardinality({c \in CallIds : Deleting(c, id)}) <= 1
            /\ (\E c \in CallIds : Deleting(c, id)) => id \notin RowIds
            /\ Cardinality(DeletedEvents(id)) <= 1
            /\ \A c \in CallIds :
                  /\ Deleting(c, id) => ExistedBefore(c, id) /\ ~DeletedBefore(c, id)
                  /\ (DeleteOf(c, id) /\ calls[c].repoErr = ErrNotFound) =>
                        /\ ~ExistedBefore(c, id) \/ DeletedBefore(c, id)
                        /\ ErrorsIs(calls[c].ret.err, ErrNotFound)
                        /\ PublishedBy(c) = {})
    /\ [][\A c \in CallIds :
            (calls[c].pc = "idle" /\ calls'[c].repoErr = ErrNotFound) => rows' = rows]_vars

\* the product in the table was deleted and its event published; a second
\* Delete of the same id returned ErrNotFound
C17_Witness ==
    \E c, d \in CallIds :
        /\ c < d
        /\ Deleting(c, SeedProduct.id) /\ PublishedBy(c) # {}
        /\ DeleteOf(d, SeedProduct.id) /\ calls[d].repoErr = ErrNotFound

Creating(c) == calls[c].op = "create" /\ calls[c].product # ZeroProduct
Creates == {c \in CallIds : Creating(c)}
Deletes == {c \in CallIds : Deleting(c, calls[c].id)}

\* C18: on a table that started empty, Count is the number of Creates that
\* succeeded minus the number of Deletes that succeeded, the table holds
\* exactly the created products not deleted since, and every Create returned
\* an id greater than every id returned before it.
C18_CountAndIncreasingIds ==
    /\ RepoCount(rows, TRUE).total = Cardinality(Creates) - Cardinality(Deletes)
    /\ rows = {calls[c].product :
                  c \in {k \in Creates : \A d \in Deletes : calls[d].id # calls[k].product.id}}
    /\ \A c, d \in Creates : c < d => calls[c].product.id < calls[d].product.id
    /\ \A c \in Creates : calls[c].product.id \in 1..(nextID - 1)

\* a product was created, then deleted, and the table is empty again
C18_Witness ==
    /\ \E c \in Creates, d \in Deletes : c < d /\ calls[d].id = calls[c].product.id
    /\ RepoCount(rows, TRUE).total = 0

\* C19: the created counter is the number of CreateProduct calls that
\* returned a nil error and the deleted counter the number of DeleteProduct
\* calls that did, whether or not their Publish failed; a call that returned
\* an error, or has not returned, has not been counted.
C19_CountersMatchSuccesses ==
    /\ created = Cardinality({c \in CallIds : calls[c].op = "create" /\ Succeeded(c)})
    /\ deleted = Cardinality({c \in CallIds : calls[c].op = "delete" /\ Succeeded(c)})
    /\ created + deleted =
          Cardinality({c \in CallIds : Returned(c) /\ calls[c].repoErr = Nil
                                        /\ calls[c].ret.err # ErrInvalidName})

\* a create whose Publish failed and a delete whose Publish succeeded have
\* returned and each was counted, while no other call was
C19_Witness ==
    /\ created = 1 /\ deleted = 1
    /\ \E c \in CallIds : calls[c].op = "create" /\ Succeeded(c) /\ PublishFailed(c)
    /\ \E c \in CallIds : calls[c].op = "delete" /\ Succeeded(c) /\ ~PublishFailed(c)

Loaded(fn) == loaded.pc = "done" /\ loaded.fn = fn
Unset(key) == key \notin DOMAIN env \/ env[key] = ""

\* C20: LoadProducts returns the error "DATABASE_URL is required" (and the
\* zero config) when DATABASE_URL is unset or empty; otherwise "RABBITMQ_URL is
\* required" when RABBITMQ_URL is unset or empty; otherwise no error and a
\* config with both values and, as HTTPAddr, the value of HTTP_ADDR or ":8080"
\* when that is unset or empty.  LoadNotifications returns "RABBITMQ_URL is
\* required" exactly when RABBITMQ_URL is unset or empty, and no error and
\* that value otherwise.
C20_ConfigLoading ==
    /\ Loaded("LoadProducts") =>
          IF Unset("DATABASE_URL")
          THEN loaded.err = <<"DATABASE_URL is required">> /\ loaded.cfg = ZeroProducts
          ELSE IF Unset("RABBITMQ_URL")
          THEN loaded.err = <<"RABBITMQ_URL is required">> /\ loaded.cfg = ZeroProducts
          ELSE /\ loaded.err = Nil
               /\ loaded.cfg.DatabaseURL = env["DATABASE_URL"]
               /\ loaded.cfg.RabbitMQURL = env["RABBITMQ_URL"]
               /\ loaded.cfg.HTTPAddr =
                     IF Unset("HTTP_ADDR") THEN ":8080" ELSE env["HTTP_ADDR"]
    /\ Loaded("LoadNotifications") =>
          /\ loaded.err \in {Nil, <<"RABBITMQ_URL is required">>}
          /\ loaded.err # Nil <=> Unset("RABBITMQ_URL")
          /\ loaded.err = Nil => loaded.cfg.RabbitMQURL = env["RABBITMQ_URL"]
          /\ loaded.err # Nil => loaded.cfg = ZeroNotifications

\* LoadProducts ran with DATABASE_URL set, RABBITMQ_URL set to the empty
\* string and HTTP_ADDR not set, and asked for RABBITMQ_URL
C20_Witness ==
    /\ Loaded("LoadProducts")
    /\ ~Unset("DATABASE_URL")
    /\ "RABBITMQ_URL" \in DOMAIN env /\ env["RABBITMQ_URL"] = ""
    /\ "HTTP_ADDR" \notin DOMAIN env
    /\ loaded.err = <<"RABBITMQ_URL is required">>

HandleEntries == At("info") \cup At("error")
ResolveEntries == At("ack") \cup At("nack")

\* C21: every delivery Listen takes from the delivery channel gets exactly
\* one Ack or Nack-with-requeue call, made right after it was handled and
\* before Listen receives another delivery or returns; Listen holds a delivery
\* exactly while it is between receipt and that call, and cancellation never
\* makes it return in between.
C21_EachDeliveryResolvedOnce ==
    /\ [](/\ (lpc \in {"handling", "handled"}) <=> (cur # NoDelivery)
          /\ \A i \in HandleEntries :
                IF i = Len(trace)
                THEN lpc = "handled" /\ cur.tag = trace[i].tag
                ELSE /\ (i + 1) \in ResolveEntries
                     /\ trace[i + 1].tag = trace[i].tag
                     /\ ~Resolving(trace[i].tag)
          /\ \A j \in ResolveEntries :
                /\ j > 1 /\ (j - 1) \in HandleEntries
                /\ trace[j - 1].tag = trace[j].tag
                /\ trace[j].kind = "nack" => trace[j].requeue
          /\ \A t \in Tags :
                Cardinality(OfTag("ack", t) \cup OfTag("nack", t)) =
                    IF Handled(t) /\ ~Resolving(t) THEN 1 ELSE 0)
    /\ [][/\ lpc = "select" /\ lpc' = "handling" =>
               /\ cur' = Head(msgs)
               /\ OfTag("ack", cur'.tag) \cup OfTag("nack", cur'.tag) = {}
          /\ lpc = "handling" => lpc' \in {"handling", "handled"}
          /\ lpc = "handled" => lpc' \in {"handled", "select"}
          /\ lpc = "handled" /\ lpc' = "select" =>
               /\ Len(trace') = Len(trace) + 1
               /\ trace'[Len(trace')].kind \in {"ack", "nack"}
               /\ trace'[Len(trace')].tag = cur.tag]_vars

\* the cancellation signal has fired and Listen returned on it; the step it
\* took right before returning was the Ack or Nack of the delivery it held
C21_Witness ==
    /\ lpc = "returned"
    /\ ctxDone
    /\ \E j \in ResolveEntries :
          /\ j + 1 = Len(trace)
          /\ trace[j + 1].kind = "returned"
          /\ trace[j].run = restarts

\* the deliveries the consumer took from the delivery channel and has not
\* resolved: the Processing step
Processing == {d \in unacked : d \notin Range(msgs)}

\* C22: at most one delivery is in the Processing step, and it is the one
\* Listen holds; Listen takes a delivery from the channel only when it holds
\* none; and between the handling of two deliveries in one run of the process
\* lies the Ack or Nack of the first.
C22_OneMessageAtATime ==
    /\ [](/\ Cardinality(Processing) <= 1
          /\ Processing \subseteq {cur}
          /\ \A i, j \in HandleEntries :
                (i < j /\ trace[i].run = trace[j].run) =>
                    \E k \in ResolveEntries : i < k /\ k < j /\ trace[k].tag = trace[i].tag)
    /\ [][cur' \notin {cur, NoDelivery} => (cur = NoDelivery /\ Processing = {})]_vars

\* Listen is processing a delivery while the next one waits in the delivery
\* channel, after it resolved an earlier one in this run
C22_Witness ==
    /\ lpc = "handling"
    /\ cur \in Processing
    /\ msgs # <<>>
    /\ \E k \in ResolveEntries : trace[k].run = restarts

\* the messages of queue q other than m, in their order in q
RECURSIVE Without(_, _)
Without(q, m) ==
    IF q = <<>> THEN <<>>
    ELSE IF Head(q) = m THEN Without(Tail(q), m)
    ELSE <<Head(q)>> \o Without(Tail(q), m)

\* C23: the Ack or Nack of one delivery changes the state of that delivery's
\* message only: every other message stays ready (at its place in the queue),
\* in flight under the same delivery tag, or acknowledged, as it was, and the
\* deliveries waiting in the delivery channel stay there.
C23_ResolutionTouchesOneDelivery ==
    [][(lpc = "handled" /\ lpc' = "select") =>
          /\ Without(ready', cur.msg) = Without(ready, cur.msg)
          /\ {d \in unacked' : d # cur} = {d \in unacked : d # cur}
          /\ acked' \ {cur.msg} = acked \ {cur.msg}
          /\ msgs' = msgs
          /\ bodies' = bodies]_vars

\* the first message was just requeued by a Nack the broker accepted while a
\* later delivery was in flight, waiting in the delivery channel, and it still is
C23_Witness ==
    /\ lpc = "select"
    /\ trace # <<>>
    /\ trace[Len(trace)].kind = "nack" /\ trace[Len(trace)].ok
    /\ trace[Len(trace)].msg = 1
    /\ 1 \in Range(ready)
    /\ msgs # <<>>
    /\ Range(msgs) \subseteq unacked

\* no delivery tag is left for a message that waits on the queue
OutOfDeliveries(m) == nextTag > MaxDeliveries /\ m \in Range(ready)

\* C24: a message that fails to deserialize does not end Listen: the step
\* after the failure is the Nack, which takes Listen back to its select, and
\* Listen never returns the failure.  Under fair delivery, once some message
\* has failed, every valid message that is not yet acknowledged is eventually
\* logged and acknowledged, unless the consumer is gone (Listen returned on a
\* signal or its channel closed) or the broker's deliveries are used up while
\* the message waits on the queue.
C24_LoopSurvivesPoison ==
    /\ [][(lpc = "handled" /\ herr # Nil) => lpc' \in {"handled", "select"}]_vars
    /\ [](lpc = "returned" => listenRet \in {Nil, ConsumeError(ErrTransport)})
    /\ \A m \in 1..MaxMsgs :
          [](m \in Msgs /\ ~Poison(m) /\ m \notin acked /\ At("error") # {}
                => <>(\/ m \in acked /\ OfMsg("info", m) # {}
                      \/ ConsumerGone
                      \/ OutOfDeliveries(m)))

\* a poison message failed and was requeued, after that a valid message was
\* logged and acknowledged, and the poison message failed once more after
\* that; Listen is still running
C24_Witness ==
    /\ ~ConsumerGone
    /\ \E i, l \in At("nack"), j \in At("info"), k \in At("ack") :
          /\ i < j /\ j < k /\ k < l
          /\ trace[i].msg = trace[l].msg
          /\ trace[i].ok /\ trace[l].ok
          /\ trace[k].tag = trace[j].tag /\ trace[k].ok

\* the wire shape of ProductEvent: a JSON object with the fields event_type
\* (one of the two event types), product_id (a number), timestamp (a time)
\* and, optionally, name (a string), and no other field
WireShape(body) ==
    /\ body.wf
    /\ {"event_type", "product_id", "timestamp"} \subseteq DOMAIN body.obj
    /\ DOMAIN body.obj \subseteq {"event_type", "product_id", "timestamp", "name"}
    /\ \A k \in DOMAIN body.obj : FieldDecodes(k, body.obj[k])
    /\ body.obj["event_type"].text \in {EventCreated, EventDeleted}

\* C25 (as claimed): a message whose body does not have the wire shape of
\* ProductEvent is never logged as an event and never acknowledged: each of
\* its deliveries ends in a Nack with requeue.
C25_MismatchSurfacesAsFailure ==
    \A m \in Msgs : ~WireShape(bodies[m]) =>
        /\ OfMsg("info", m) = {}
        /\ OfMsg("ack", m) = {}
        /\ m \notin acked

\* the Publish invocations whose body the broker accepted, in order
Sent == SelectSeq(events, LAMBDA p : p.err = Nil)

\* C26: the body Publish produced for an event the service constructed
\* deserializes in handleMessage without error to the same event_type,
\* product_id, name and timestamp; the body of a deleted event has no name
\* field and decodes to the empty name, the body of a created event has one.
C26_WireRoundTrip ==
    /\ Len(Sent) = Len(bodies)
    /\ \A m \in Msgs :
          LET event == Sent[m].event
              body == bodies[m]
              delivery == [tag |-> 1, msg |-> m]
              r == handleMessage(delivery)
          IN  /\ body = Marshal(event)
              /\ r.err = Nil
              /\ Len(r.log) = 1
              /\ r.log[1].kind = "info"
              /\ r.log[1].event.event_type = event.event_type
              /\ r.log[1].event.product_id = event.product_id
              /\ r.log[1].event.name = event.name
              /\ r.log[1].event.timestamp = event.timestamp
              /\ event.event_type = EventDeleted =>
                    /\ "name" \notin DOMAIN body.obj
                    /\ r.log[1].event.name = <<>>
              /\ event.event_type = EventCreated => "name" \in DOMAIN body.obj

\* the bodies of a created event, whose name has a space inside, and of the
\* deleted event of the same product are on the queue
C26_Witness ==
    \E m, n \in Msgs :
        /\ Sent[m].event.event_type = EventCreated
        /\ Sent[m].event.name = <<"a", " ", "a">>
        /\ Sent[n].event.event_type = EventDeleted
        /\ Sent[n].event.product_id = Sent[m].event.product_id
        /\ Sent[n].event.timestamp > Sent[m].event.timestamp

\* the trace entries of run r of the notifications process
OfRun(r) == {i \in DOMAIN trace : trace[i].run = r}

\* C27 (as amended): within one run of the consumer, messages are processed
\* in the order in which they were published as long as no message was
\* negatively acknowledged in that run.
C27_FifoWithinRunWithoutNack ==
    \A i, j \in HandleEntries :
        (/\ i < j
         /\ trace[i].run = trace[j].run
         /\ \A k \in At("nack") \cap OfRun(trace[j].run) : k > j)
            => trace[i].msg < trace[j].msg

\* after a Nack requeued the first message, the second message was processed
\* and the first one was processed again after it
C27_Witness ==
    \E i, j, k \in HandleEntries, n \in At("nack") :
        /\ i < n /\ n < j /\ j < k
        /\ trace[n].tag = trace[i].tag /\ trace[n].ok
        /\ trace[i].msg = 1 /\ trace[j].msg = 2 /\ trace[k].msg = 1
        /\ trace[i].run = trace[k].run

\* C27 (as claimed): as long as no message is negatively acknowledged, the
\* consumer never processes a message after a message that was published later.
C27_FifoWithoutNack ==
    At("nack") = {} =>
        \A i, j \in HandleEntries : i < j => trace[i].msg <= trace[j].msg

\* C28: every event handed to Publish has event_type product_created or
\* product_deleted and a positive product_id; it belongs to a call whose store
\* mutation succeeded, and its product_id is the id that call inserted
\* (created) or deleted (deleted).  At the step of the mutation that id was in
\* the store: a create's id is in the table right after the step and was not
\* before, a delete's id was in the table right before it and is not after.
C28_EventsNameStoredProducts ==
    /\ [](\A i \in DOMAIN events :
              LET e == events[i].event
                  c == events[i].call
              IN  /\ e.event_type \in {EventCreated, EventDeleted}
                  /\ e.product_id > 0
                  /\ calls[c].repoErr = Nil
                  /\ calls[c].pc \in {"published", "done"}
                  /\ e.event_type = EventCreated =>
                        calls[c].op = "create" /\ e.product_id = calls[c].product.id
                  /\ e.event_type = EventDeleted =>
                        calls[c].op = "delete" /\ e.product_id = calls[c].id)
    /\ [][\A c \in CallIds :
            (calls[c].pc = "idle" /\ calls'[c].pc = "mutated") =>
                IF calls'[c].op = "create"
                THEN /\ calls'[c].product.id > 0
                     /\ calls'[c].product \in rows'
                     /\ calls'[c].product.id \notin RowIds
                ELSE /\ calls'[c].id > 0
                     /\ calls'[c].id \in RowIds
                     /\ calls'[c].id \notin {p.id : p \in rows'}]_vars

\* a created event for the product this run inserted and a deleted event for
\* the product an earlier run had left in the table were handed to Publish
C28_Witness ==
    \E i, j \in DOMAIN events :
        /\ events[i].event.event_type = EventCreated
        /\ events[i].event.product_id = 2
        /\ events[j].event.event_type = EventDeleted
        /\ events[j].event.product_id = SeedProduct.id
        /\ SeedProduct \notin rows

\* C29 (as claimed): of two events one producer process handed to the broker,
\* the one handed over later never carries an earlier timestamp.
C29_TimestampsMonotonic ==
    \A i, j \in DOMAIN Sent :
        i < j => Sent[i].event.timestamp <= Sent[j].event.timestamp

\* ---- the notifications process
HasExited == proc.pc = "exited"
ConfigFailed == loaded.pc = "done" /\ loaded.err # Nil
ConnectFailed == proc.failed = "connect rabbitmq"
ConstructFailed == proc.failed = "init consumer"
ConsumeFailed == lpc = "returned" /\ listenRet = ConsumeError(ErrTransport)
ListenEndedNil == lpc = "returned" /\ listenRet = Nil
TimedOut == proc.timer = "fired"

\* C30 (as amended): run returns 1 when loading the configuration, the
\* connection or the construction of the consumer failed (Listen is then
\* never started) or when it took the error of a failed consume setup from
\* errCh, and 0 when it took nil from errCh (Listen ended on the signal or on
\* a closed delivery channel) or when, after the shutdown signal, the timeout
\* elapsed and it took the timer.  A consume setup that failed while the
\* timeout had not elapsed always ends in 1; a Listen that ended without
\* error always ends in 0.
C30_ExitCodeFollowsWhatRunTook ==
    HasExited =>
        /\ proc.code \in {0, 1}
        /\ proc.code = 1 <=> proc.failed # ""
        /\ ConfigFailed => proc.code = 1 /\ proc.failed = "load config" /\ lpc = "start"
        /\ (ConnectFailed \/ ConstructFailed) => proc.code = 1 /\ lpc = "start"
        /\ proc.code = 1 =>
              \/ ConfigFailed
              \/ ConnectFailed
              \/ ConstructFailed
              \/ proc.got = "error" /\ ConsumeFailed
        /\ proc.code = 0 =>
              \/ proc.got = "nil" /\ ListenEndedNil
              \/ proc.got = "timeout" /\ TimedOut /\ ctxDone
        /\ proc.got = "error" => proc.code = 1
        /\ (ConsumeFailed /\ ~TimedOut) => proc.code = 1
        /\ ListenEndedNil => proc.code = 0

\* the consume setup failed after the shutdown signal, and run took the error
\* in its second select and returned 1
C30_Witness ==
    /\ HasExited
    /\ proc.code = 1
    /\ proc.failed = "consumer stop failed"
    /\ ConsumeFailed
    /\ ctxDone

\* C30 (as claimed): the process exits with a failure code when the
\* configuration, the connection, the consumer construction or the consume
\* setup failed, and with 0 when Listen ended without error or the shutdown
\* timeout elapsed.
C30_ExitCodes ==
    HasExited =>
        /\ (ConfigFailed \/ ConnectFailed \/ ConstructFailed \/ ConsumeFailed) => proc.code # 0
        /\ (ListenEndedNil \/ TimedOut) => proc.code = 0

\* C31 (as claimed): for every product id, the product_created event is handed
\* to the publisher before any product_deleted event for the same id.
C31_CreatedBeforeDeleted ==
    \A j \in DOMAIN events :
        events[j].event.event_type = EventDeleted =>
            \E i \in DOMAIN events :
                /\ i < j
                /\ events[i].event.event_type = EventCreated
                /\ events[i].event.product_id = events[j].event.product_id

\* C32: once the cancellation signal has fired Listen eventually returns, also
\* when deliveries never stop arriving on the delivery channel; and once it
\* has returned it takes no delivery from the channel, logs nothing and
\* acknowledges nothing more.
C32_CancellationWinsTheRace ==
    /\ ctxDone ~> lpc = "returned"
    /\ [][lpc = "returned" =>
            /\ lpc' = "returned"
            /\ cur' = NoDelivery
            /\ trace' = trace
            /\ acked' = acked]_vars

\* Listen returned on the signal after it had gone on receiving: the signal
\* had fired, a delivery was processed and resolved, and another one is still
\* waiting in the delivery channel
C32_Witness ==
    /\ lpc = "returned" /\ ctxDone /\ chanOpen /\ listenRet = Nil
    /\ msgs # <<>>
    /\ Len(trace) >= 2
    /\ trace[Len(trace) - 1].kind = "nack"

\* C33: after the shutdown signal the notifications process terminates; run
\* leaves its second wait only with the result of Listen or with the elapsed
\* shutdown timeout; and while the process lives a Listen that has returned
\* finds room in errCh for its result, so its goroutine does not block on the
\* send.
C33_ShutdownTerminates ==
    /\ ctxDone ~> proc.pc = "exited"
    /\ [][(proc.pc = "drain" /\ proc'.pc = "exited") =>
            \/ proc.errCh # <<>> /\ proc'.got \in {"nil", "error"}
            \/ proc.timer = "fired" /\ proc'.got = "timeout"]_vars
    /\ []((proc.pc \in {"select", "drain"} /\ lpc = "returned" /\ ~proc.sent) =>
            Len(proc.errCh) < errChCap)

\* the process ended on the shutdown timeout while Listen was still busy with
\* a delivery
C33_Witness ==
    /\ proc.pc = "exited"
    /\ proc.got = "timeout"
    /\ proc.code = 0
    /\ ctxDone
    /\ lpc = "handling"

ListResponded == listing.response.status # 0

\* C34 (as claimed): for every page >= 1 and limit the handler accepts from
\* the query string, the offset passed to the store is (page - 1) * limit as
\* the integers have it, and it is not negative.
C34_OffsetIsTheProduct ==
    (Listed /\ listing.page >= 1) =>
        /\ listing.queries[1].offset = (listing.page - 1) * listing.queries[1].limit
        /\ listing.queries[1].offset >= 0

\* C35 (as claimed): the page and limit of the pagination block are the page
\* and limit the store query was made with.
C35_PaginationReportsAppliedValues ==
    (ListResponded /\ listing.response.status = StatusOK) =>
        /\ listing.response.limit = listing.queries[1].limit
        /\ listing.queries[1].offset =
              Offset(listing.response.page, listing.queries[1].limit)

====
